---- MODULE Spec2Model ----
(***************************************************************************)
(* Model of the mathjslab tree-walking evaluator (src/src/evaluator.ts).   *)
(*                                                                         *)
(* The interpreter state is the name table, the local binding table, the   *)
(* read-only list, the base function table and the exit status.  One       *)
(* action per public entry point: Evaluate (the recursive reduction        *)
(* Evaluator run on a statement list under try/catch) and Clear.           *)
(*                                                                         *)
(* AST nodes are records with a `type` field, as in the source.  Every     *)
(* value also carries `cls`, the JavaScript class the source tests with    *)
(* isNumber / isTensor / isString ("Node" for plain AST objects).          *)
(* The `parent` back-reference of a node is modelled by the chain of       *)
(* frames that following `.parent` from the node visits; the chain ends    *)
(* in ParentNull (parent === null), ParentUndefined (no parent property)   *)
(* or ParentCycle (a node that is its own parent).                         *)
(***************************************************************************)
EXTENDS Integers, Sequences, FiniteSets, TLC

VARIABLES nameTable, localTable, readonlyNameTable, baseFunctionTable,
          exitStatus, debug, last

vars == <<nameTable, localTable, readonlyNameTable, baseFunctionTable,
          exitStatus, debug, last>>

(***************************************************************************)
(* Bounds of the model.                                                    *)
(***************************************************************************)
\* Largest number a name-table entry may hold (values are decimals in the
\* source, unbounded; the actions are disabled beyond this).
MaxVal == 4
\* Largest linear length of a tensor stored in the name table.
MaxLin == 6
\* Depth of nested name-table dereferences / user function calls after which
\* the JavaScript call stack is taken to be exhausted (RangeError).
MaxDepth == 6

(***************************************************************************)
(* Exit status codes.                                                      *)
(***************************************************************************)
response ==
    [EXTERNAL |-> -2, WARNING |-> -1, OK |-> 0,
     LEX_ERROR |-> 1, PARSER_ERROR |-> 2, EVAL_ERROR |-> 3]

(***************************************************************************)
(* Values: ComplexDecimal numbers, MultiArray tensors, undefined.          *)
(***************************************************************************)
\* ComplexDecimal.numberClass: the numeric `type` tags (numbers in the
\* source, so `typeof x.type === 'number'` is membership in this set).
numberClass == {"logical", "real", "complex"}

newNumber(n) == [cls |-> "ComplexDecimal", type |-> "real", re |-> n]
newLogical(n) == [cls |-> "ComplexDecimal", type |-> "logical", re |-> n]

isNumber(v) == v.cls = "ComplexDecimal"
isTensor(v) == v.cls = "MultiArray"
isString(v) == v.cls = "CharString"

undefined == [cls |-> "undefined", type |-> "undefined"]

\* A MultiArray: dim = <<rows, columns>>, array = sequence of rows.
newTensor(rows) ==
    [cls |-> "MultiArray", type |-> "real",
     dim |-> <<Len(rows), IF Len(rows) = 0 THEN 0 ELSE Len(rows[1])>>,
     array |-> rows]

(***************************************************************************)
(* Errors.  `name` is the JavaScript error class; NoError = nothing thrown.*)
(***************************************************************************)
NoError == [name |-> "none", msg |-> "", n |-> 0]
EvalError(msg) == [name |-> "EvalError", msg |-> msg, n |-> 0]
SyntaxError(msg) == [name |-> "SyntaxError", msg |-> msg, n |-> 0]
TypeError(msg) == [name |-> "TypeError", msg |-> msg, n |-> 0]
RangeError(msg) == [name |-> "RangeError", msg |-> msg, n |-> 0]

\* The outcome of running a piece of the evaluator: the interpreter state
\* it leaves, the value it returns and the error it throws (if any).
Return(s, v) == [s |-> s, v |-> v, e |-> NoError]
Throw(s, err) == [s |-> s, v |-> undefined, e |-> err]
Threw(r) == r.e.name # "none"

(***************************************************************************)
(* AST node constructors (the parser's callbacks).                         *)
(***************************************************************************)
nodeReserved(nodeid) == [cls |-> "Node", type |-> nodeid]

nodeName(nodeid) == [cls |-> "Node", type |-> "NAME", id |-> nodeid]

nodeCmdWList(nodename, words) ==
    [cls |-> "Node", type |-> "CmdWList", id |-> nodename.id, args |-> words]

nodeArgExpr(nodeexpr, nodelist) ==
    [cls |-> "Node", type |-> "ARG", expr |-> nodeexpr, args |-> nodelist.list]

nodeRange(start, stop) ==
    [cls |-> "Node", type |-> "RANGE", start |-> start, stop |-> stop]

BinaryOps == {"+", "-", "*", "^", "=", "+=", "-="}
RightOps == {"()", "+_", "-_", "++_", "--_"}
LeftOps == {"_++", "_--"}

nodeOp(op, data1, data2) ==
    IF op \in BinaryOps
    THEN [cls |-> "Node", type |-> op, left |-> data1, right |-> data2]
    ELSE IF op \in RightOps
    THEN [cls |-> "Node", type |-> op, right |-> data1]
    ELSE IF op \in LeftOps
    THEN [cls |-> "Node", type |-> op, left |-> data1]
    ELSE [cls |-> "Node", type |-> "INVALID"]

nodeListFirst(node) == [cls |-> "Node", type |-> "LIST", list |-> <<node>>]
nodeListEmpty == [cls |-> "Node", type |-> "LIST", list |-> <<>>]
nodeList(lnode, node) == [lnode EXCEPT !.list = Append(@, node)]

\* A return list.  The selector (length, index) -> value is a closure in the
\* source; here it is the data the closure captures: kind "wrap" is the
\* selector built by the assignment case around its right side, kind "vals"
\* a selector over a fixed sequence of values.
nodeReturnList(selector) ==
    [cls |-> "Node", type |-> "RETLIST", selector |-> selector]

(***************************************************************************)
(* Numeric value core and tensor engine (complex-decimal.ts, tensor.ts,    *)
(* multi-array.ts).  Whole numbers stand for the decimals of the source.   *)
(***************************************************************************)
isValue(v) == isNumber(v) \/ isTensor(v)

RECURSIVE Pow(_, _)
Pow(a, b) == IF b <= 0 THEN 1 ELSE a * Pow(a, b - 1)

Arith(op, a, b) ==
    CASE op = "+" -> a + b
      [] op = "-" -> a - b
      [] op = "*" -> a * b
      [] op = "^" -> Pow(a, b)

SeqMax(q) == IF Len(q) = 0 THEN 0 ELSE CHOOSE m \in {q[k] : k \in 1..Len(q)} : \A k \in 1..Len(q) : q[k] <= m

linearLength(M) == M.dim[1] * M.dim[2]

\* Size of dimension k (0-based); trailing dimensions have size 1.
getDimension(M, k) == IF k + 1 \in DOMAIN M.dim THEN M.dim[k + 1] ELSE 1

\* Element at 1-based linear position k, column-major.
LinearItem(M, k) == M.array[((k - 1) % M.dim[1]) + 1][((k - 1) \div M.dim[1]) + 1]

\* The elements of a value in storage (column-major) order.
LinearSeq(v) ==
    IF isNumber(v) THEN <<v>> ELSE [k \in 1..linearLength(v) |-> LinearItem(v, k)]

\* MultiArray.linearize: the value flattened to one row.
linearize(v) ==
    IF ~isTensor(v) THEN v
    ELSE [cls |-> "MultiArray", type |-> v.type,
          dim |-> <<1, linearLength(v)>>, array |-> <<LinearSeq(v)>>]

\* MultiArray.numberToMatrix.
toTensor(v) ==
    IF isNumber(v)
    THEN [cls |-> "MultiArray", type |-> v.type, dim |-> <<1, 1>>, array |-> <<(<<v>>)>>]
    ELSE v

\* MultiArray.expandRange with the default stride 1.
expandRange(start, stop) ==
    LET n == IF stop.re >= start.re THEN stop.re - start.re + 1 ELSE 0
    IN [cls |-> "MultiArray", type |-> "real", dim |-> <<IF n = 0 THEN 0 ELSE 1, n>>,
        array |-> IF n = 0 THEN <<>> ELSE <<[k \in 1..n |-> newNumber(start.re + k - 1)]>>]

\* The whole-number subscripts a reduced subscript value stands for.
Subscripts(v) == [k \in 1..Len(LinearSeq(v)) |-> LinearSeq(v)[k].re]

\* Element-wise binary operation of the opTable (Tensor.plus, ...): number
\* with number, tensor with number, tensors of equal shape.
Elementwise(op, a, b) ==
    IF isNumber(a) /\ isNumber(b) THEN newNumber(Arith(op, a.re, b.re))
    ELSE LET dim == IF isTensor(a) THEN a.dim ELSE b.dim
             A(i, j) == IF isTensor(a) THEN a.array[i][j].re ELSE a.re
             B(i, j) == IF isTensor(b) THEN b.array[i][j].re ELSE b.re
         IN [cls |-> "MultiArray", type |-> "real", dim |-> dim,
             array |-> [i \in 1..dim[1] |-> [j \in 1..dim[2] |-> newNumber(Arith(op, A(i, j), B(i, j)))]]]

\* opTable[op](a, b): fails on operands that are not values or whose shapes
\* differ.
opTable(op, a, b, s) ==
    IF ~(isValue(a) /\ isValue(b))
    THEN Throw(s, TypeError("operand is not a numeric value"))
    ELSE IF isTensor(a) /\ isTensor(b) /\ a.dim # b.dim
    THEN Throw(s, EvalError("operator: nonconformant arguments"))
    ELSE Return(s, Elementwise(op, a, b))

\* MultiArray.getItems: the elements of M selected by the reduced subscripts
\* args (one linear subscript, or one subscript per dimension).
getItems(M, id, args, s) ==
    IF \E k \in 1..Len(args) : ~isValue(args[k])
    THEN Throw(s, TypeError("subscript is not a numeric value"))
    ELSE IF Len(args) = 1
    THEN LET idx == Subscripts(args[1])
         IN IF \E k \in 1..Len(idx) : idx[k] < 1 \/ idx[k] > linearLength(M)
            THEN Throw(s, EvalError("index out of bounds"))
            ELSE IF isNumber(args[1]) THEN Return(s, LinearItem(M, idx[1]))
            ELSE Return(s, [cls |-> "MultiArray", type |-> M.type,
                            dim |-> <<IF Len(idx) = 0 THEN 0 ELSE 1, Len(idx)>>,
                            array |-> IF Len(idx) = 0 THEN <<>>
                                      ELSE <<[k \in 1..Len(idx) |-> LinearItem(M, idx[k])]>>])
    ELSE IF Len(args) = 2
    THEN LET ri == Subscripts(args[1])
             ci == Subscripts(args[2])
         IN IF (\E k \in 1..Len(ri) : ri[k] < 1 \/ ri[k] > M.dim[1])
               \/ (\E k \in 1..Len(ci) : ci[k] < 1 \/ ci[k] > M.dim[2])
            THEN Throw(s, EvalError("index out of bounds"))
            ELSE IF isNumber(args[1]) /\ isNumber(args[2])
            THEN Return(s, M.array[ri[1]][ci[1]])
            ELSE Return(s, [cls |-> "MultiArray", type |-> M.type,
                            dim |-> <<Len(ri), Len(ci)>>,
                            array |-> [i \in 1..Len(ri) |-> [j \in 1..Len(ci) |-> M.array[ri[i]][ci[j]]]]])
    ELSE Throw(s, EvalError("invalid number of subscripts"))

\* Positions (1-based linear) at which a logical mask is true.
TruePositions(mask) ==
    LET q == LinearSeq(mask)
        F[k \in 0..Len(q)] ==
            IF k = 0 THEN <<>>
            ELSE IF q[k].re # 0 THEN Append(F[k - 1], newNumber(k)) ELSE F[k - 1]
    IN F[Len(q)]

AsRow(q) ==
    [cls |-> "MultiArray", type |-> "real",
     dim |-> <<IF Len(q) = 0 THEN 0 ELSE 1, Len(q)>>,
     array |-> IF Len(q) = 0 THEN <<>> ELSE <<q>>]

\* MultiArray.getItemsLogical: the elements at the mask's true positions.
getItemsLogical(M, id, mask, s) ==
    IF linearLength(mask) > linearLength(M)
    THEN Throw(s, EvalError("index out of bounds"))
    ELSE getItems(M, id, <<AsRow(TruePositions(mask))>>, s)

\* Writing values at <<row, column>> positions of a tensor, growing it and
\* filling new cells with zero.
SetAt(T, pos, vals) ==
    LET rows == SeqMax(<<T.dim[1]>> \o [k \in 1..Len(pos) |-> pos[k][1]])
        cols == SeqMax(<<T.dim[2]>> \o [k \in 1..Len(pos) |-> pos[k][2]])
        At(i, j) ==
            LET ks == {k \in 1..Len(pos) : pos[k] = <<i, j>>}
            IN IF ks # {}
               THEN vals[IF Len(vals) = 1 THEN 1 ELSE CHOOSE k \in ks : \A m \in ks : m <= k]
               ELSE IF i <= T.dim[1] /\ j <= T.dim[2] THEN T.array[i][j]
               ELSE newNumber(0)
    IN [cls |-> "MultiArray", type |-> "real", dim |-> <<rows, cols>>,
        array |-> [i \in 1..rows |-> [j \in 1..cols |-> At(i, j)]]]

\* MultiArray.setItems: indexed assignment to the variable id of the name
\* table; args are the linearized reduced subscripts, right the values.
\* The target must be bound to a value (an invalid indexing target is an
\* evaluation error).
setItems(id, args, right, s) ==
    IF id \notin DOMAIN s.nameTable
       \/ Len(s.nameTable[id].args) # 0
       \/ ~isValue(s.nameTable[id].expr)
    THEN Throw(s, EvalError("invalid indexing target"))
    ELSE IF (\E k \in 1..Len(args) : ~isValue(args[k])) \/ ~isValue(right)
    THEN Throw(s, TypeError("subscript or value is not a numeric value"))
    ELSE
    LET T == toTensor(s.nameTable[id].expr)
        vals == LinearSeq(right)
        lin == IF Len(args) >= 1 THEN Subscripts(args[1]) ELSE <<>>
        col == IF Len(args) >= 2 THEN Subscripts(args[2]) ELSE <<>>
        pos == IF Len(args) = 1
               THEN [k \in 1..Len(lin) |->
                        IF T.dim[1] <= 1 THEN <<1, lin[k]>>
                        ELSE <<((lin[k] - 1) % T.dim[1]) + 1, ((lin[k] - 1) \div T.dim[1]) + 1>>]
               ELSE [k \in 1..(Len(lin) * Len(col)) |->
                        <<lin[((k - 1) % Len(lin)) + 1], col[((k - 1) \div Len(lin)) + 1]>>]
    IN IF Len(args) \notin {1, 2}
       THEN Throw(s, EvalError("invalid number of subscripts"))
       ELSE IF \E k \in 1..Len(pos) : pos[k][1] < 1 \/ pos[k][2] < 1
       THEN Throw(s, EvalError("index out of bounds"))
       ELSE IF Len(args) = 1 /\ T.dim[1] > 1 /\ SeqMax(lin) > linearLength(T)
       THEN Throw(s, EvalError("a matrix cannot be resized by a linear subscript"))
       ELSE IF Len(vals) # 1 /\ Len(vals) # Len(pos)
       THEN Throw(s, EvalError("nonconformant arguments"))
       ELSE Return([s EXCEPT !.nameTable =
                        [n \in DOMAIN s.nameTable \cup {id} |->
                            IF n = id THEN [args |-> <<>>, expr |-> SetAt(T, pos, vals)]
                            ELSE s.nameTable[n]]],
                   undefined)

\* MultiArray.setItemsLogical: assignment at the mask's true positions.
setItemsLogical(id, mask, right, s) ==
    setItems(id, <<AsRow(TruePositions(mask))>>, right, s)

\* MultiArray.evaluate: a tensor of literals reduces to itself.
evaluateTensor(tree, s) == Return(s, tree)


(***************************************************************************)
(* The `parent` / `index` properties of nodes.                             *)
(***************************************************************************)
\* What the evaluator can read of an ancestor through `.parent`: its type,
\* its callee name and number of arguments (for ARG nodes) and its `index`
\* (-1 when the property was never set).
Frame(tree, index) ==
    [type |-> tree.type,
     id |-> IF tree.type = "ARG" /\ tree.expr.type = "NAME" THEN tree.expr.id ELSE "",
     nargs |-> IF tree.type = "ARG" THEN Len(tree.args) ELSE 0,
     index |-> index]

ParentNull == [type |-> "null", id |-> "", nargs |-> 0, index |-> -1]
ParentUndefined == [type |-> "undefined", id |-> "", nargs |-> 0, index |-> -1]
ParentCycle == [type |-> "cycle", id |-> "", nargs |-> 0, index |-> -1]
IsTerminator(frame) == frame.type \in {"null", "undefined", "cycle"}

\* The parent a node gets from nodeListFirst / nodeList: the LIST node
\* under construction, which itself has no parent property.
BuilderParent == <<[type |-> "LIST", id |-> "", nargs |-> 0, index |-> -1], ParentUndefined>>

\* The call context of Evaluator(tree, local, fname): the node's parent
\* chain and index, the local flag, the function name and the nesting depth
\* of stored-expression dereferences.
\* The context of a child whose parent (and index) the evaluator sets.
Under(tree, env, i) ==
    [env EXCEPT !.parent = <<Frame(tree, env.index)>> \o env.parent, !.index = i]

\* The context of Evaluator(node) with default arguments (local = false,
\* fname = ''), the node keeping the parent chain `parent`.
Default(parent, env) ==
    [parent |-> parent, index |-> -1, local |-> FALSE, fname |-> "", depth |-> env.depth]

(***************************************************************************)
(* Return lists.                                                           *)
(***************************************************************************)
UndefinedElement(index) ==
    [name |-> "EvalError", msg |-> "element number undefined in return list", n |-> index + 1]

\* Mutant: the right side is handed out for every index.
WrapSelectorEvery(right, length, index, s) == Return(s, right)

\* The selector the assignment case wraps around a right side that is not a
\* return list.
WrapSelector(right, length, index, s) ==
    IF index = 0 THEN Return(s, right) ELSE Throw(s, UndefinedElement(index))

\* The selector of a built-in that yields a fixed sequence of values.
ValsSelector(vals, length, index, s) ==
    IF index < Len(vals) THEN Return(s, vals[index + 1]) ELSE Throw(s, UndefinedElement(index))

Select(selector, length, index, s) ==
    IF selector.kind = "wrap" THEN WrapSelector(selector.tree, length, index, s)
    ELSE ValsSelector(selector.vals, length, index, s)

reduceIfReturnList(r) ==
    IF Threw(r) THEN r
    ELSE IF r.v.cls = "undefined"
    THEN Throw(r.s, TypeError("Cannot read properties of undefined (reading 'type')"))
    ELSE IF r.v.type = "RETLIST" THEN Select(r.v.selector, 1, 0, r.s)
    ELSE r

(***************************************************************************)
(* validateAssignment: the targets of a left-hand side.                    *)
(***************************************************************************)
null == [cls |-> "null", type |-> "null"]

\* Mutant: the read-only list is never consulted.
readonlyIncludesNothing(readonly, id) == FALSE

readonlyIncludes(readonly, id) == id \in readonly

validateTarget(tree, readonly) ==
    IF tree.type = "NAME"
    THEN IF readonlyIncludes(readonly, tree.id)
         THEN [e |-> EvalError("invalid left hand side of assignment: cannot assign to a read only value"),
               list |-> <<>>]
         ELSE [e |-> NoError, list |-> <<[left |-> tree, id |-> tree.id, args |-> <<>>]>>]
    ELSE IF tree.type = "ARG" /\ tree.expr.type = "NAME"
    THEN IF readonlyIncludes(readonly, tree.expr.id)
         THEN [e |-> EvalError("invalid left hand side of assignment: cannot assign to a read only value"),
               list |-> <<>>]
         ELSE [e |-> NoError, list |-> <<[left |-> tree.expr, id |-> tree.expr.id, args |-> tree.args]>>]
    ELSE IF tree.type = "<~>"
    THEN [e |-> NoError, list |-> <<[left |-> null, id |-> "~", args |-> <<>>]>>]
    ELSE [e |-> EvalError("invalid left hand side of assignment"), list |-> <<>>]

validateAssignment(tree, readonly) ==
    IF tree.type \in {"NAME", "ARG", "<~>"} \/ ~(isTensor(tree) /\ tree.dim[1] = 1)
    THEN validateTarget(tree, readonly)
    ELSE LET row == tree.array[1]
             each == [k \in 1..Len(row) |-> validateTarget(row[k], readonly)]
             bad == {k \in 1..Len(row) : each[k].e.name # "none"}
         IN IF bad # {}
            THEN each[CHOOSE k \in bad : \A m \in bad : k <= m]
            ELSE [e |-> NoError, list |-> [k \in 1..Len(row) |-> each[k].list[1]]]

\* The compound operator of an assignment node type ('' for plain '=').
CompoundOp(type) ==
    CASE type = "=" -> ""
      [] type = "+=" -> "+"
      [] type = "-=" -> "-"


(***************************************************************************)
(* Tables.                                                                 *)
(***************************************************************************)
\* The words registered as word-list commands (global commandsTable, the
\* keys of commandWordListTable).
commandsTable == {"cmd"}

\* config.aliasTable: for each canonical name the names its pattern matches.
aliasTable == [size |-> {"sz"}]

\* aliasName as initialize installs it: the canonical name of the first
\* pattern that matches, else the name itself.
aliasName(name) ==
    IF \E i \in DOMAIN aliasTable : name \in aliasTable[i]
    THEN CHOOSE i \in DOMAIN aliasTable : name \in aliasTable[i]
    ELSE name

Put(table, key, value) ==
    [k \in DOMAIN table \cup {key} |-> IF k = key THEN value ELSE table[k]]

Remove(table, key) == [k \in DOMAIN table \ {key} |-> table[k]]

Empty == [k \in {} |-> undefined]

\* `local && this.localTable[fname] && this.localTable[fname][id]`
InLocal(env, id, s) ==
    /\ env.local
    /\ env.fname \in DOMAIN s.localTable
    /\ id \in DOMAIN s.localTable[env.fname].vars

\* Errors a catch clause receives (everything thrown; a reduction that
\* never ends throws nothing).
Caught(r) == Threw(r) /\ r.e.name # "Hang"

\* Built-in implementations of the base function table.  size(M) yields a
\* return list over the dimensions of M.  "nodes" is the implementation of
\* the entries a caller supplies in externalFunctionTable: it returns how
\* many of its arguments it was handed as unreduced nodes.
baseFunction(func, args, s) ==
    IF func = "size"
    THEN IF Len(args) = 1 /\ isValue(args[1])
         THEN Return(s, nodeReturnList([kind |-> "vals",
                  vals |-> [k \in 1..2 |-> newNumber(toTensor(args[1]).dim[k])]]))
         ELSE Throw(s, EvalError("Invalid call to size."))
    ELSE IF func = "nodes"
    THEN Return(s, newNumber(Cardinality({k \in 1..Len(args) : args[k].cls = "Node"})))
    ELSE Throw(s, EvalError("Invalid call."))

(***************************************************************************)
(* incDecOp: the operators ++x, --x, x++, x--.                             *)
(***************************************************************************)
incDecOp(pre, operation, tree, s) ==
    IF tree.type = "NAME"
    THEN IF tree.id \notin DOMAIN s.nameTable
         THEN Throw(s, TypeError("Cannot read properties of undefined (reading 'expr')"))
         ELSE LET old == s.nameTable[tree.id]
                  r == opTable(operation, old.expr, newNumber(1), s)
              IN IF Threw(r) THEN r
                 ELSE Return([s EXCEPT !.nameTable[tree.id] = [old EXCEPT !.expr = r.v]],
                             IF pre THEN r.v ELSE old.expr)
    ELSE Throw(s, SyntaxError("invalid increment or decrement variable."))

\* Mutant: the test only asks that every subscript is a NAME.
isFunctionOfNames(args, table) ==
    \A i \in 1..Len(args) : args[i].type = "NAME"

\* Test if an assignment with subscripts is a function definition: args is
\* a list of undefined NAME.
isFunction(args, table) ==
    \A i \in 1..Len(args) : args[i].type = "NAME" /\ args[i].id \notin DOMAIN table

\* `tree.parent.parent === null`, for a node whose parent chain is given.
AtRoot(parent) == Len(parent) >= 2 /\ parent[2].type = "null"


(***************************************************************************)
(* Evaluator: the expression tree recursive evaluator.  A step that uses   *)
(* the outcome r of a nested reduction is an operator of its own, taking r *)
(* as a parameter: an exception raised by the nested reduction passes      *)
(* through it.                                                             *)
(***************************************************************************)
RECURSIVE Evaluator(_, _, _)
RECURSIVE ReduceEach(_, _, _, _, _)
RECURSIVE ReduceSelected(_, _, _, _, _, _)
RECURSIVE BindArguments(_, _, _, _)
RECURSIVE AssignTargets(_, _, _, _)
RECURSIVE ReduceList(_, _, _, _, _)

\* The LIST node holding the reduced elements acc.
Reduced(acc) == [cls |-> "Node", type |-> "LIST", list |-> acc]

ReduceEachNext(i, args, ctx, acc, r) ==
    IF Threw(r) THEN r ELSE ReduceEach(i + 1, args, ctx, r.s, Append(acc, r.v))

\* args.map(arg => reduceIfReturnList(Evaluator(arg, ...))) from argument
\* i on: ctx[k] is the context argument k is reduced in; acc collects the
\* results.  The value returned is a LIST node holding them.
ReduceEach(i, args, ctx, s, acc) ==
    IF i > Len(args) THEN Return(s, Reduced(acc))
    ELSE ReduceEachNext(i, args, ctx, acc, reduceIfReturnList(Evaluator(args[i], ctx[i], s)))

\* The contexts of the arguments of the ARG node tree: arg.parent = tree,
\* arg.index = i.
ArgumentContexts(tree, env) == [k \in 1..Len(tree.args) |-> Under(tree, env, k - 1)]

ReduceSelectedNext(k, args, ctx, ev, acc, r) ==
    IF Threw(r) THEN r ELSE ReduceSelected(k + 1, args, ctx, ev, r.s, Append(acc, r.v))

\* Selective evaluation: argument k is reduced when ev[k] is set and handed
\* on as the node otherwise.
ReduceSelected(k, args, ctx, ev, s, acc) ==
    IF k > Len(args) THEN Return(s, Reduced(acc))
    ELSE IF k <= Len(ev) /\ ev[k]
    THEN ReduceSelectedNext(k, args, ctx, ev, acc, reduceIfReturnList(Evaluator(args[k], ctx[k], s)))
    ELSE ReduceSelected(k + 1, args, ctx, ev, s, Append(acc, args[k]))

BinaryOperationApply(tree, l, r) ==
    IF Threw(r) THEN r ELSE opTable(tree.type, l.v, r.v, r.s)

BinaryOperationRight(tree, env, l) ==
    IF Threw(l) THEN l
    ELSE BinaryOperationApply(tree, l,
             reduceIfReturnList(Evaluator(tree.right, Under(tree, env, -1), l.s)))

\* Operators with two operands.
BinaryOperation(tree, env, s) ==
    BinaryOperationRight(tree, env,
        reduceIfReturnList(Evaluator(tree.left, Under(tree, env, -1), s)))

UnaryOperationApply(tree, r) ==
    IF Threw(r) THEN r
    ELSE opTable(IF tree.type = "+_" THEN "+" ELSE "-", newNumber(0), r.v, r.s)

\* Unary plus and minus.
UnaryOperation(tree, env, s) ==
    UnaryOperationApply(tree, reduceIfReturnList(Evaluator(tree.right, Under(tree, env, -1), s)))

\* The context a stored expression is reduced in: its parent is the node
\* that names it, the other arguments are the defaults.
StoredContext(tree, env) ==
    [Default(<<Frame(tree, env.index)>> \o env.parent, env) EXCEPT !.depth = env.depth + 1]

\* The NAME case.
NameCase(tree, env, s) ==
    IF InLocal(env, tree.id, s)
    THEN Return(s, s.localTable[env.fname].vars[tree.id])
    ELSE IF tree.id \in DOMAIN s.nameTable
    THEN IF Len(s.nameTable[tree.id].args) = 0
         THEN IF env.depth >= MaxDepth
              THEN Throw(s, RangeError("Maximum call stack size exceeded"))
              ELSE reduceIfReturnList(
                       Evaluator(s.nameTable[tree.id].expr, StoredContext(tree, env), s))
         ELSE Throw(s, EvalError("calling function without arguments list."))
    ELSE Throw(s, EvalError("undefined."))

\* The callee of the ARG node the frame stands for is bound to a tensor.
IndexesTensor(frame, s) ==
    /\ frame.type = "ARG"
    /\ frame.id \in DOMAIN s.nameTable
    /\ Len(s.nameTable[frame.id].args) = 0
    /\ isTensor(s.nameTable[frame.id].expr)

\* The first frame of the parent chain that ends the walk of ENDRANGE.
NearestArg(chain) ==
    CHOOSE k \in 1..Len(chain) :
        /\ chain[k].type = "ARG" \/ IsTerminator(chain[k])
        /\ \A m \in 1..(k - 1) : ~(chain[m].type = "ARG" \/ IsTerminator(chain[m]))

EndRangeAt(parent, index, s) ==
    IF parent.type = "undefined"
    THEN Throw(s, TypeError("Cannot read properties of undefined (reading 'type')"))
    ELSE IF parent.type = "cycle"
    THEN Throw(s, [name |-> "Hang", msg |-> "the parent chain is a cycle", n |-> 0])
    ELSE IF IndexesTensor(parent, s)
    THEN Return(s, IF parent.nargs = 1
                   THEN newNumber(linearLength(s.nameTable[parent.id].expr))
                   ELSE newNumber(getDimension(s.nameTable[parent.id].expr, index)))
    ELSE Throw(s, SyntaxError("indeterminate end of range."))

\* The ENDRANGE case: the nearest ancestor of type ARG; the dimension is
\* the index of the node's own parent.
EndRangeCase(tree, env, s) ==
    EndRangeAt(env.parent[NearestArg(env.parent)], env.parent[1].index, s)

ColonAt(parent, s) ==
    IF parent.type \in {"null", "undefined"}
    THEN Throw(s, TypeError("Cannot read properties of undefined (reading 'type')"))
    ELSE IF IndexesTensor(parent, s)
    THEN Return(s, IF parent.nargs = 1
                   THEN expandRange(newNumber(1), newNumber(linearLength(s.nameTable[parent.id].expr)))
                   ELSE expandRange(newNumber(1),
                                    newNumber(getDimension(s.nameTable[parent.id].expr, parent.index))))
    ELSE Throw(s, SyntaxError("indeterminate colon."))

\* The ':' case: the parent itself must be the indexing.
ColonCase(tree, env, s) == ColonAt(env.parent[1], s)

RangeCaseExpand(a, b) ==
    IF Threw(b) THEN b
    ELSE IF ~(isNumber(a.v) /\ isNumber(b.v))
    THEN Throw(b.s, TypeError("range bound is not a number"))
    ELSE Return(b.s, expandRange(a.v, b.v))

RangeCaseStop(tree, env, a) ==
    IF Threw(a) THEN a
    ELSE RangeCaseExpand(a, reduceIfReturnList(Evaluator(tree.stop, Under(tree, env, -1), a.s)))

\* The RANGE case.
RangeCase(tree, env, s) ==
    RangeCaseStop(tree, env, reduceIfReturnList(Evaluator(tree.start, Under(tree, env, -1), s)))

\* The CmdWList case: the handler runs, the status becomes EXTERNAL.
CmdWListCase(tree, env, s) ==
    IF tree.id \notin commandsTable
    THEN Throw(s, TypeError("Cannot read properties of undefined (reading 'func')"))
    ELSE Return([s EXCEPT !.cmdCalls = @ + 1, !.exitStatus = response.EXTERNAL], tree)

IndexTensorSingle(temp, id, arg0) ==
    IF Threw(arg0) THEN arg0
    ELSE IF isTensor(arg0.v) /\ arg0.v.type = "logical"
    THEN getItemsLogical(temp, id, arg0.v, arg0.s)
    ELSE getItems(temp, id, <<arg0.v>>, arg0.s)

IndexTensorSeveral(temp, id, a) ==
    IF Threw(a) THEN a ELSE getItems(temp, id, a.v.list, a.s)

\* Indexing the tensor temp by the subscripts of the ARG node tree: a
\* single subscript is reduced with the parent its builder gave it.
IndexTensor(temp, id, tree, env, s) ==
    IF Len(tree.args) = 1
    THEN IndexTensorSingle(temp, id,
             reduceIfReturnList(
                 Evaluator(tree.args[1], [env EXCEPT !.parent = BuilderParent, !.index = -1], s)))
    ELSE IndexTensorSeveral(temp, id, ReduceEach(1, tree.args, ArgumentContexts(tree, env), s, <<>>))

\* this.localTable[fn][param] = r: the frame written to is the one that
\* was in the local table before the argument was reduced; a frame replaced
\* or deleted meanwhile no longer receives the binding.
BindArgument(i, tree, env, s, r) ==
    IF Threw(r) THEN r
    ELSE IF tree.expr.id \notin DOMAIN s.localTable
    THEN Throw(r.s, TypeError("Cannot set properties of undefined"))
    ELSE IF /\ tree.expr.id \in DOMAIN r.s.localTable
            /\ r.s.localTable[tree.expr.id].serial = s.localTable[tree.expr.id].serial
    THEN BindArguments(i + 1, tree, env,
             [r.s EXCEPT !.localTable[tree.expr.id].vars =
                             Put(@, s.nameTable[tree.expr.id].args[i].id, r.v)])
    ELSE BindArguments(i + 1, tree, env, r.s)

\* Binding the arguments of a call of the user function tree.expr.id from
\* argument i on.
BindArguments(i, tree, env, s) ==
    IF i > Len(tree.args) THEN Return(s, undefined)
    ELSE BindArgument(i, tree, env, s,
             reduceIfReturnList(
                 Evaluator(tree.args[i], [Under(tree, env, i - 1) EXCEPT !.local = TRUE], s)))

\* The context the body of the function fn is reduced in: local bindings of
\* fn; the parent of the body is the one its definition left.
BodyContext(fn, env) ==
    [parent |-> <<[type |-> "=", id |-> "", nargs |-> 0, index |-> 0],
                  [type |-> "LIST", id |-> "", nargs |-> 0, index |-> -1],
                  ParentNull>>,
     index |-> -1, local |-> TRUE, fname |-> fn, depth |-> env.depth + 1]

\* delete this.localTable[fn]; return temp.
FunctionCallReturn(fn, temp) ==
    IF Threw(temp) THEN temp
    ELSE Return([temp.s EXCEPT !.localTable = Remove(@, fn)], temp.v)

FunctionCallBody(fn, env, b) ==
    IF Threw(b) THEN b
    ELSE FunctionCallReturn(fn,
             reduceIfReturnList(Evaluator(b.s.nameTable[fn].expr, BodyContext(fn, env), b.s)))

\* this.localTable[fn] = {}
NewFrame(fn, s) ==
    [s EXCEPT !.serial = s.serial + 1,
              !.localTable = Put(s.localTable, fn, [serial |-> s.serial + 1, vars |-> Empty])]

\* Mutant: only a call with too many arguments is rejected.
FunctionCallUnderfilled(tree, env, s) ==
    IF Len(s.nameTable[tree.expr.id].args) < Len(tree.args)
    THEN Throw(s, EvalError("invalid number of arguments in function."))
    ELSE IF env.depth >= MaxDepth
    THEN Throw(s, RangeError("Maximum call stack size exceeded"))
    ELSE FunctionCallBody(tree.expr.id, env, BindArguments(1, tree, env, NewFrame(tree.expr.id, s)))

\* Call of a function defined in the name table.
FunctionCall(tree, env, s) ==
    IF Len(s.nameTable[tree.expr.id].args) # Len(tree.args)
    THEN Throw(s, EvalError("invalid number of arguments in function."))
    ELSE IF env.depth >= MaxDepth
    THEN Throw(s, RangeError("Maximum call stack size exceeded"))
    ELSE FunctionCallBody(tree.expr.id, env, BindArguments(1, tree, env, NewFrame(tree.expr.id, s)))

BaseFunctionCall(entry, a) ==
    IF Threw(a) THEN a
    ELSE IF entry.mapper = "true" /\ Len(a.v.list) # 1
    THEN Throw(a.s, EvalError("Invalid call."))
    ELSE baseFunction(entry.func, a.v.list, a.s)

\* Call of a function of the base function table: mapper and plain entries
\* get every argument reduced, entries with selective evaluation flags the
\* flagged ones.
BaseFunctionCase(entry, tree, env, s) ==
    IF entry.mapper # "undefined"
    THEN BaseFunctionCall(entry, ReduceEach(1, tree.args, ArgumentContexts(tree, env), s, <<>>))
    ELSE BaseFunctionCall(entry,
             ReduceSelected(1, tree.args, ArgumentContexts(tree, env), entry.ev, s, <<>>))

DefinedNameIndexed(tree, env, temp) ==
    IF Threw(temp) THEN temp
    ELSE IF Len(tree.args) = 0 THEN temp
    ELSE IF isTensor(temp.v) THEN IndexTensor(temp.v, tree.expr.id, tree, env, temp.s)
    ELSE Throw(temp.s, EvalError("invalid matrix indexing or function arguments."))

\* An ARG node whose callee is a variable of the name table.
DefinedNameCase(tree, env, s) ==
    IF env.depth >= MaxDepth
    THEN Throw(s, RangeError("Maximum call stack size exceeded"))
    ELSE DefinedNameIndexed(tree, env,
             reduceIfReturnList(
                 Evaluator(s.nameTable[tree.expr.id].expr, StoredContext(tree, env), s)))

\* Mutant: the name table is consulted before the base function table.
ArgCaseNameTableFirst(tree, env, s) ==
    IF tree.expr.type = "NAME"
    THEN IF InLocal(env, tree.expr.id, s)
         THEN Return(s, s.localTable[env.fname].vars[tree.expr.id])
         ELSE IF tree.expr.id \in DOMAIN s.nameTable
         THEN IF Len(s.nameTable[tree.expr.id].args) = 0
              THEN DefinedNameCase(tree, env, s)
              ELSE FunctionCall(tree, env, s)
         ELSE IF aliasName(tree.expr.id) \in DOMAIN s.baseFunctionTable
         THEN BaseFunctionCase(s.baseFunctionTable[aliasName(tree.expr.id)], tree, env, s)
         ELSE Throw(s, EvalError("undefined."))
    ELSE IF isTensor(tree.expr) THEN IndexTensor(tree.expr, "", tree, env, s)
    ELSE Throw(s, TypeError("literal indexing of a value that is not a tensor"))

\* The ARG case: indexed matrix reference or function call.
ArgCase(tree, env, s) ==
    IF tree.expr.type = "NAME"
    THEN IF aliasName(tree.expr.id) \in DOMAIN s.baseFunctionTable
         THEN BaseFunctionCase(s.baseFunctionTable[aliasName(tree.expr.id)], tree, env, s)
         ELSE IF InLocal(env, tree.expr.id, s)
         THEN Return(s, s.localTable[env.fname].vars[tree.expr.id])
         ELSE IF tree.expr.id \in DOMAIN s.nameTable
         THEN IF Len(s.nameTable[tree.expr.id].args) = 0
              THEN DefinedNameCase(tree, env, s)
              ELSE FunctionCall(tree, env, s)
         ELSE Throw(s, EvalError("undefined."))
    ELSE IF isTensor(tree.expr) THEN IndexTensor(tree.expr, "", tree, env, s)
    ELSE Throw(s, TypeError("literal indexing of a value that is not a tensor"))


\* The parent chain of the right side of the assignment node tree, as set
\* on entry to the assignment case.
RightParent(tree, env) == <<Frame(tree, env.index)>> \o env.parent

SelectedValueReduce(a, sel) ==
    IF Threw(sel) THEN sel
    ELSE reduceIfReturnList(Evaluator(sel.v, Default(RightParent(a.tree, a.env), a.env), sel.s))

\* reduceIfReturnList(Evaluator(right.selector(length, n))), the value for
\* target n of an indexed assignment.
SelectedValue(a, n, s) ==
    SelectedValueReduce(a, Select(a.right.selector, Len(a.assignment), n, s))

\* Mutant: the reduced value is not stored.
StoreNameLost(s, id, expr) == s

\* this.nameTable[id] = { args: [], expr }
StoreName(s, id, expr) ==
    [s EXCEPT !.nameTable = Put(@, id, [args |-> <<>>, expr |-> expr])]

\* The expression reduced for a plain-name target: rightN, or
\* nodeOp(op, left, rightN) for a compound form.
NameDefinitionExpr(a, t, rightN) ==
    IF a.op # "" THEN nodeOp(a.op, t.left, rightN) ELSE rightN

\* rightN.parent = tree.right: the right side wrapped by the assignment case
\* is its own parent; a fresh operation node has no parent.
NameDefinitionParent(a) ==
    IF a.op # "" THEN <<ParentUndefined>>
    ELSE IF a.right.selector.kind = "wrap"
    THEN <<Frame(a.tree.right, -1), ParentCycle>>
    ELSE <<Frame(a.tree.right, -1)>> \o RightParent(a.tree, a.env)

\* A catch clause that throws again without storing the expression.
NameDefinitionStoreStale(t, expr, r) ==
    IF Threw(r) THEN r
    ELSE Return(StoreName(r.s, t.id, r.v), nodeOp("=", t.left, r.v))

\* try { nameTable[id] = reduced value } catch { nameTable[id] = expr; throw }
NameDefinitionStore(t, expr, r) ==
    IF Caught(r) THEN Throw(StoreName(r.s, t.id, expr), r.e)
    ELSE IF Threw(r) THEN r
    ELSE Return(StoreName(r.s, t.id, r.v), nodeOp("=", t.left, r.v))

NameDefinitionReduce(a, t, sel) ==
    IF Threw(sel) THEN sel
    ELSE NameDefinitionStore(t, NameDefinitionExpr(a, t, sel.v),
             reduceIfReturnList(
                 Evaluator(NameDefinitionExpr(a, t, sel.v),
                           Default(NameDefinitionParent(a), a.env), sel.s)))

\* Name definition: target n is a plain name.
NameDefinition(a, n, s) ==
    NameDefinitionReduce(a, a.assignment[n + 1], Select(a.right.selector, Len(a.assignment), n, s))

FunctionDefinitionStore(a, t, sel) ==
    IF Threw(sel) THEN sel
    ELSE Return([sel.s EXCEPT !.nameTable = Put(@, t.id, [args |-> t.args, expr |-> sel.v])],
                a.tree)

\* Function definition: the parameters and what the selector yields for the
\* right side.
FunctionDefinition(a, n, s) ==
    FunctionDefinitionStore(a, a.assignment[n + 1], Select(a.right.selector, Len(a.assignment), n, s))

SubscriptSingle(arg0) ==
    IF Threw(arg0) THEN arg0 ELSE Return(arg0.s, Reduced(<<arg0.v>>))

\* The reduced subscripts of an indexed target: a single subscript is
\* reduced in the context of the assignment, several with the defaults.
Subscript(a, n, s) ==
    IF Len(a.assignment[n + 1].args) = 1
    THEN SubscriptSingle(
             reduceIfReturnList(
                 Evaluator(a.assignment[n + 1].args[1],
                           [a.env EXCEPT !.parent = BuilderParent, !.index = -1], s)))
    ELSE ReduceEach(1, a.assignment[n + 1].args,
                    [k \in 1..Len(a.assignment[n + 1].args) |-> Default(BuilderParent, a.env)], s, <<>>)

IsLogicalSubscript(list) ==
    Len(list) = 1 /\ isTensor(list[1]) /\ list[1].type = "logical"

\* setItems / setItemsLogical on the reduced subscripts.
Store(id, list, value, s) ==
    IF IsLogicalSubscript(list)
    THEN setItemsLogical(id, linearize(list[1]), toTensor(value), s)
    ELSE setItems(id, [k \in 1..Len(list) |-> linearize(list[k])], toTensor(value), s)

\* The node an indexed assignment appends to resultList.
IndexedAssignmentDone(t, put) ==
    IF Threw(put) THEN put
    ELSE Return(put.s, nodeOp("=", nodeName(t.id), put.s.nameTable[t.id].expr))

IndexedAssignmentStore(t, sub, val) ==
    IF Threw(val) THEN val
    ELSE IndexedAssignmentDone(t, Store(t.id, sub.v.list, val.v, val.s))

IndexedAssignmentValue(a, n, t, sub) ==
    IF Threw(sub) THEN sub
    ELSE IndexedAssignmentStore(t, sub, SelectedValue(a, n, sub.s))

\* Indexed matrix reference on left hand side.
IndexedAssignment(a, n, s) ==
    IndexedAssignmentValue(a, n, a.assignment[n + 1], Subscript(a, n, s))

\* The elements the compound form reads: with one subscript the reduced
\* subscript, with several the subscript nodes.
ComputedCurrent(t, sub) ==
    IF ~isTensor(sub.s.nameTable[t.id].expr)
    THEN Throw(sub.s, TypeError("the indexed value is not a tensor"))
    ELSE IF IsLogicalSubscript(sub.v.list)
    THEN getItemsLogical(sub.s.nameTable[t.id].expr, t.id, sub.v.list[1], sub.s)
    ELSE getItems(sub.s.nameTable[t.id].expr, t.id,
                  IF Len(t.args) = 1 THEN sub.v.list ELSE t.args, sub.s)

ComputedStore(t, sub, new) ==
    IF Threw(new) THEN new
    ELSE IndexedAssignmentDone(t, Store(t.id, sub.v.list, new.v, new.s))

ComputedApply(a, t, sub, cur, val) ==
    IF Threw(val) THEN val
    ELSE ComputedStore(t, sub,
             reduceIfReturnList(
                 Evaluator(nodeOp(a.op, cur.v, toTensor(val.v)),
                           [Default(<<ParentUndefined>>, a.env) EXCEPT !.fname = a.env.fname],
                           val.s)))

ComputedValue(a, n, t, sub, cur) ==
    IF Threw(cur) THEN cur ELSE ComputedApply(a, t, sub, cur, SelectedValue(a, n, cur.s))

ComputedSubscript(a, n, t, sub) ==
    IF Threw(sub) THEN sub ELSE ComputedValue(a, n, t, sub, ComputedCurrent(t, sub))

\* Indexed matrix reference on left hand side with operator.
ComputedIndexedAssignment(a, n, s) ==
    IF a.assignment[n + 1].id \notin DOMAIN s.nameTable
    THEN Throw(s, EvalError("in computed assignment id(index) OP= X, id must be defined first."))
    ELSE IF Len(s.nameTable[a.assignment[n + 1].id].args) # 0
    THEN Throw(s, EvalError("in computed assignment id(index) OP= X, id cannot be a function."))
    ELSE ComputedSubscript(a, n, a.assignment[n + 1], Subscript(a, n, s))

\* One turn of the loop over the targets; the value returned is the node
\* appended to resultList (null for a discarded target).
AssignTarget(a, n, s) ==
    IF a.assignment[n + 1].left.type = "null" THEN Return(s, null)
    ELSE IF Len(a.assignment[n + 1].args) = 0 THEN NameDefinition(a, n, s)
    ELSE IF a.op # "" THEN ComputedIndexedAssignment(a, n, s)
    ELSE IF isFunction(a.assignment[n + 1].args, s.nameTable) THEN FunctionDefinition(a, n, s)
    ELSE IndexedAssignment(a, n, s)

AssignTargetsNext(a, n, acc, r) ==
    IF Threw(r) THEN r
    ELSE AssignTargets(a, n + 1, r.s, IF r.v.type = "null" THEN acc ELSE Append(acc, r.v))

\* The loop over the targets from target n on; acc is resultList.list.
AssignTargets(a, n, s, acc) ==
    IF n >= Len(a.assignment) THEN Return(s, Reduced(acc))
    ELSE AssignTargetsNext(a, n, acc, AssignTarget(a, n, s))

\* The right side as the loop over the targets uses it: the return list it
\* reduced to, or else a one-element return list around the right side.
RightSide(tree, r0) ==
    IF ~Threw(r0) /\ r0.v.type = "RETLIST" THEN r0.v
    ELSE nodeReturnList([kind |-> "wrap", tree |-> tree.right])

\* The value of a completed assignment: at the root of a statement the
\* result node (or the list of them), else the value of the first target.
AssignmentResult(tree, env, resultList, s) ==
    IF IsTerminator(env.parent[1])
    THEN Throw(s, TypeError("Cannot read properties of null (reading 'parent')"))
    ELSE IF AtRoot(env.parent)
    THEN IF Len(resultList.list) = 1 THEN Return(s, resultList.list[1]) ELSE Return(s, resultList)
    ELSE IF Len(resultList.list) = 0
    THEN Throw(s, TypeError("Cannot read properties of undefined (reading 'right')"))
    ELSE Return(s, resultList.list[1].right)

\* What the loop over the targets reads: the validated targets, the
\* operator of a compound form, the assignment node and the right side.
AssignmentContext(tree, env, valid, r0) ==
    [assignment |-> valid.list, op |-> CompoundOp(tree.type), tree |-> tree, env |-> env,
     right |-> RightSide(tree, r0)]

AssignmentFinish(tree, env, done) ==
    IF Threw(done) THEN done ELSE AssignmentResult(tree, env, done.v, done.s)

\* r0 is the outcome of try { right = Evaluator(tree.right) }: an exception
\* is caught and the loop goes on from the state the reduction left.
AssignmentLoop(tree, env, valid, r0) ==
    IF Threw(r0) /\ ~Caught(r0) THEN r0
    ELSE IF ~Threw(r0) /\ r0.v.cls = "undefined"
    THEN Throw(r0.s, TypeError("Cannot read properties of undefined (reading 'type')"))
    ELSE AssignmentFinish(tree, env,
             AssignTargets(AssignmentContext(tree, env, valid, r0), 0, r0.s, <<>>))

\* Mutant: a compound operator with several targets is not rejected.
AssignmentValidatedSeveral(tree, env, s, valid) ==
    IF valid.e.name # "none" THEN Throw(s, valid.e)
    ELSE AssignmentLoop(tree, env, valid,
             Evaluator(tree.right, [Under(tree, env, -1) EXCEPT !.local = FALSE], s))

AssignmentValidated(tree, env, s, valid) ==
    IF valid.e.name # "none" THEN Throw(s, valid.e)
    ELSE IF Len(valid.list) > 1 /\ CompoundOp(tree.type) # ""
    THEN Throw(s, EvalError("computed multiple assignment not allowed."))
    ELSE AssignmentLoop(tree, env, valid,
             Evaluator(tree.right, [Under(tree, env, -1) EXCEPT !.local = FALSE], s))

\* The assignment case ('=' and the compound forms).
AssignmentCase(tree, env, s) ==
    AssignmentValidated(tree, env, s, validateAssignment(tree.left, s.readonlyNameTable))

\* Convert undefined name, defined in word-list command, to word-list
\* command.
IsCommandWord(node, env, s) ==
    /\ node.type = "NAME"
    /\ ~InLocal(env, node.id, s)
    /\ node.id \notin DOMAIN s.nameTable
    /\ node.id \in commandsTable

\* Statement i of a list as it is reduced.
Statement(node, env, s) ==
    IF IsCommandWord(node, env, s)
    THEN [cls |-> "Node", type |-> "CmdWList", id |-> node.id, args |-> <<>>]
    ELSE node

\* tree.list[i].parent = result, where result.parent is null for the list
\* Evaluate was called with and the list itself otherwise.
StatementParent(tree, env) ==
    IF env.parent[1].type = "null"
    THEN <<[type |-> "LIST", id |-> "", nargs |-> 0, index |-> -1], ParentNull>>
    ELSE <<[type |-> "LIST", id |-> "", nargs |-> 0, index |-> -1], Frame(tree, env.index)>>
             \o env.parent

\* A reduced statement whose type tag is a number rebinds ans.
BindAns(v, s) ==
    IF v.type \in numberClass
    THEN [s EXCEPT !.nameTable = Put(@, "ans", [args |-> <<>>, expr |-> v])]
    ELSE s

ReduceListNext(i, tree, env, acc, r) ==
    IF Threw(r) THEN r
    ELSE ReduceList(i + 1, tree, env, BindAns(r.v, r.s), Append(acc, r.v))

\* The LIST case from statement i on; acc is result.list.
ReduceList(i, tree, env, s, acc) ==
    IF i > Len(tree.list) THEN Return(s, Reduced(acc))
    ELSE ReduceListNext(i, tree, env, acc,
             reduceIfReturnList(
                 Evaluator(Statement(tree.list[i], env, s),
                           [env EXCEPT !.parent = StatementParent(tree, env), !.index = i - 1], s)))

Evaluator(tree, env, s) ==
    IF isNumber(tree) \/ isString(tree) THEN Return(s, tree)
    ELSE IF isTensor(tree) THEN evaluateTensor(tree, s)
    ELSE CASE tree.type \in {"+", "-", "*", "^"} -> BinaryOperation(tree, env, s)
           [] tree.type = "()" ->
                reduceIfReturnList(Evaluator(tree.right, Under(tree, env, -1), s))
           [] tree.type \in {"+_", "-_"} -> UnaryOperation(tree, env, s)
           [] tree.type = "++_" -> incDecOp(TRUE, "+", tree.right, s)
           [] tree.type = "--_" -> incDecOp(TRUE, "-", tree.right, s)
           [] tree.type = "_++" -> incDecOp(FALSE, "+", tree.left, s)
           [] tree.type = "_--" -> incDecOp(FALSE, "-", tree.left, s)
           [] tree.type \in {"=", "+=", "-="} -> AssignmentCase(tree, env, s)
           [] tree.type = "NAME" -> NameCase(tree, env, s)
           [] tree.type = "LIST" -> ReduceList(1, tree, env, s, <<>>)
           [] tree.type = "RANGE" -> RangeCase(tree, env, s)
           [] tree.type = "ENDRANGE" -> EndRangeCase(tree, env, s)
           [] tree.type = ":" -> ColonCase(tree, env, s)
           [] tree.type = "ARG" -> ArgCase(tree, env, s)
           [] tree.type = "CmdWList" -> CmdWListCase(tree, env, s)
           [] OTHER -> Throw(s, EvalError("evaluating undefined type."))


(***************************************************************************)
(* The interpreter: initial state, Evaluate, Restart and Clear.            *)
(***************************************************************************)
\* The native name table (the entries the model follows).
nativeNameTable == [false |-> newLogical(0), true |-> newLogical(1)]

\* loadNativeTable: the native names enter the name table and the
\* read-only list.
loadNativeTable(table) ==
    [k \in DOMAIN table \cup DOMAIN nativeNameTable |->
        IF k \in DOMAIN nativeNameTable THEN [args |-> <<>>, expr |-> nativeNameTable[k]]
        ELSE table[k]]

\* The base function table the constructor builds (defFunction).
defFunction(name) == [mapper |-> "false", ev |-> <<>>, func |-> name]

InitialBaseFunctionTable == [k \in {"size"} |-> defFunction(k)]

\* The context of the root call Evaluator(tree) made by Evaluate, after
\* tree.parent = null.
RootContext ==
    [parent |-> <<ParentNull>>, index |-> -1, local |-> FALSE, fname |-> "", depth |-> 0]

\* The interpreter state as the reduction threads it.
Current ==
    [nameTable |-> nameTable,
     localTable |-> [f \in DOMAIN localTable |-> [serial |-> 0, vars |-> localTable[f]]],
     readonlyNameTable |-> readonlyNameTable,
     baseFunctionTable |-> baseFunctionTable,
     exitStatus |-> exitStatus,
     cmdCalls |-> 0,
     serial |-> 0]

\* Mutant: the exit status of the previous call is kept on entry.
EvaluateEntryKeepsStatus(s) == s

\* this.exitStatus = Evaluator.response.OK on entry to Evaluate.
EvaluateEntry(s) == [s EXCEPT !.exitStatus = response.OK]

\* The exit status Evaluate leaves.
EvaluateExit(r) == IF Threw(r) THEN response.EVAL_ERROR ELSE r.s.exitStatus

\* The numbers of a stored value stay within the bounds of the model.
ValueInBounds(v) ==
    IF isNumber(v) THEN v.re \in 0..MaxVal
    ELSE IF isTensor(v)
    THEN /\ linearLength(v) <= MaxLin
         /\ \A k \in 1..linearLength(v) : LinearItem(v, k).re \in 0..MaxVal
    ELSE TRUE

InBounds(s) ==
    /\ \A k \in DOMAIN s.nameTable : ValueInBounds(s.nameTable[k].expr)
    /\ \A f \in DOMAIN s.localTable :
          \A k \in DOMAIN s.localTable[f].vars : ValueInBounds(s.localTable[f].vars[k])

Init ==
    /\ nameTable = loadNativeTable(Empty)
    /\ localTable = Empty
    /\ readonlyNameTable = DOMAIN nativeNameTable
    /\ baseFunctionTable = InitialBaseFunctionTable
    /\ exitStatus = response.OK
    /\ debug = FALSE
    /\ last = [op |-> "init", tree |-> nodeListEmpty, names |-> {}, removed |-> {}, error |-> NoError,
               result |-> undefined, cmdCalls |-> 0]

Running == last.error.name # "Hang"

\* Evaluate(tree): the reduction under try/catch.
EvaluateDone(tree, r) ==
    /\ Running
    /\ InBounds(r.s)
    /\ nameTable' = r.s.nameTable
    /\ localTable' = [f \in DOMAIN r.s.localTable |-> r.s.localTable[f].vars]
    /\ exitStatus' = EvaluateExit(r)
    /\ last' = [op |-> "Evaluate", tree |-> tree, names |-> {}, removed |-> {}, error |-> r.e,
                result |-> r.v, cmdCalls |-> r.s.cmdCalls]
    /\ UNCHANGED <<readonlyNameTable, baseFunctionTable, debug>>

Evaluate(tree) ==
    EvaluateDone(tree, Evaluator(tree, RootContext, EvaluateEntry(Current)))

\* Restart, i.e. Clear().
Restart ==
    /\ Running
    /\ nameTable' = loadNativeTable(Empty)
    /\ localTable' = Empty
    /\ readonlyNameTable' = DOMAIN nativeNameTable
    /\ last' = [op |-> "Clear", tree |-> nodeListEmpty, names |-> {},
                removed |-> DOMAIN nameTable \ DOMAIN nativeNameTable, error |-> NoError,
                result |-> undefined, cmdCalls |-> 0]
    /\ UNCHANGED <<baseFunctionTable, exitStatus, debug>>

\* Mutant: read-only names are removed like the others.
ClearReadOnlyToo(names) ==
    /\ Running
    /\ names # {}
    /\ nameTable' = [k \in DOMAIN nameTable \ names |-> nameTable[k]]
    /\ baseFunctionTable' = [k \in DOMAIN baseFunctionTable \ names |-> baseFunctionTable[k]]
    /\ last' = [op |-> "Clear", tree |-> nodeListEmpty, names |-> names,
                removed |-> names \cap DOMAIN nameTable, error |-> NoError,
                result |-> undefined, cmdCalls |-> 0]
    /\ UNCHANGED <<localTable, readonlyNameTable, exitStatus, debug>>

\* Clear(names) with at least one name.
Clear(names) ==
    LET gone == names \ readonlyNameTable
    IN /\ Running
       /\ names # {}
       /\ nameTable' = [k \in DOMAIN nameTable \ gone |-> nameTable[k]]
       /\ baseFunctionTable' = [k \in DOMAIN baseFunctionTable \ gone |-> baseFunctionTable[k]]
       /\ last' = [op |-> "Clear", tree |-> nodeListEmpty, names |-> names,
                   removed |-> gone \cap DOMAIN nameTable, error |-> NoError,
                   result |-> undefined, cmdCalls |-> 0]
       /\ UNCHANGED <<localTable, readonlyNameTable, exitStatus, debug>>

(***************************************************************************)
(* The renderers Unparse, unparserML and UnparseML.  A node is a record;   *)
(* a property the node does not have reads as undefined.                   *)
(***************************************************************************)
Has(tree, f) == f \in DOMAIN tree
Property(tree, f) == IF Has(tree, f) THEN tree[f] ELSE undefined

RECURSIVE DecimalText(_)
DecimalText(n) ==
    IF n < 10 THEN <<"0", "1", "2", "3", "4", "5", "6", "7", "8", "9">>[n + 1]
    ELSE DecimalText(n \div 10) \o DecimalText(n % 10)

\* ComplexDecimal.unparse for the reals of the model.
unparseNumber(v) == DecimalText(v.re)

\* CharString.unparse.
unparseString(v) == "'" \o v.str \o "'"

\* array.map(f).join(sep) over the texts q.
RECURSIVE Join(_, _)
Join(q, sep) ==
    IF Len(q) = 0 THEN ""
    ELSE IF Len(q) = 1 THEN q[1]
    ELSE q[1] \o sep \o Join(Tail(q), sep)

\* MultiArray.unparse: rows separated by ';', elements by ','.
unparseTensor(M) ==
    "[" \o Join([i \in 1..Len(M.array) |->
                    Join([j \in 1..Len(M.array[i]) |-> unparseNumber(M.array[i][j])], ",")], ";")
        \o "]"

RECURSIVE Unparse(_)

\* The cases of the switch on tree.type; an exception (a property read on
\* undefined) is caught and yields '<ERROR>' for the node.
UnparseNode(tree) ==
    CASE tree.type \in {"+", "-", "*", "^", "=", "+=", "-="} ->
             Unparse(Property(tree, "left")) \o tree.type \o Unparse(Property(tree, "right"))
      [] tree.type = "()" -> "(" \o Unparse(Property(tree, "right")) \o ")"
      [] tree.type = "+_" -> "+" \o Unparse(Property(tree, "right"))
      [] tree.type = "-_" -> "-" \o Unparse(Property(tree, "right"))
      [] tree.type = "++_" -> "++" \o Unparse(Property(tree, "right"))
      [] tree.type = "--_" -> "--" \o Unparse(Property(tree, "right"))
      [] tree.type = "_++" -> Unparse(Property(tree, "left")) \o "++"
      [] tree.type = "_--" -> Unparse(Property(tree, "left")) \o "--"
      [] tree.type = "NAME" ->
             IF ~Has(tree, "id") THEN "<ERROR>"
             ELSE IF tree.id \in {"Inf", "inf"} THEN "&infin;"
             ELSE tree.id
      [] tree.type = "LIST" ->
             IF ~Has(tree, "list") THEN "<ERROR>"
             ELSE Join([k \in 1..Len(tree.list) |-> Unparse(tree.list[k])], "\n") \o "\n"
      [] tree.type = "RANGE" ->
             IF Has(tree, "start") /\ Has(tree, "stop")
             THEN Unparse(tree.start) \o ":" \o Unparse(tree.stop)
             ELSE ":"
      [] tree.type = "ENDRANGE" -> "end"
      [] tree.type = ":" -> ":"
      [] tree.type = "ARG" ->
             IF ~Has(tree, "args") THEN "<ERROR>"
             ELSE Unparse(Property(tree, "expr")) \o "(" \o Join([k \in 1..Len(tree.args) |-> Unparse(tree.args[k])], ",") \o ")"
      [] tree.type = "RETLIST" -> "<RETLIST>"
      [] tree.type = "CmdWList" ->
             IF ~Has(tree, "args") THEN "<ERROR>"
             ELSE (IF Has(tree, "id") THEN tree.id ELSE "undefined")
                      \o " " \o Join([k \in 1..Len(tree.args) |-> Unparse(tree.args[k])], " ")
      [] OTHER -> "<INVALID>"

\* Unparse expression tree.
Unparse(tree) ==
    IF tree = undefined THEN "<UNDEFINED>"
    ELSE IF tree = null THEN "<ERROR>"
    ELSE IF isNumber(tree) THEN unparseNumber(tree)
    ELSE IF isString(tree) THEN unparseString(tree)
    ELSE IF isTensor(tree) THEN unparseTensor(tree)
    ELSE IF ~Has(tree, "type") THEN "<INVALID>"
    ELSE UnparseNode(tree)

\* The outcome of unparserML: the markup, or an exception on its way out.
Markup(text) == [text |-> text, threw |-> FALSE]

\* catch (e) { if (this._debug) throw e; else return '<mi>error</mi>' }
MarkupCatch(dbg) == IF dbg THEN [text |-> "", threw |-> TRUE] ELSE Markup("<mi>error</mi>")

\* a + b on two outcomes, left to right.
Cat(a, b) == IF a.threw THEN a ELSE IF b.threw THEN b ELSE Markup(a.text \o b.text)

\* The outcomes q joined with sep between them, each wrapped in open/close.
RECURSIVE CatEach(_, _, _, _)
CatEach(q, open, close, sep) ==
    IF Len(q) = 0 THEN Markup("")
    ELSE IF Len(q) = 1 THEN Cat(Cat(Markup(open), q[1]), Markup(close))
    ELSE Cat(Cat(Cat(Markup(open), q[1]), Markup(close \o sep)), CatEach(Tail(q), open, close, sep))

\* substSymbol of the names of the model.
substSymbol(id) == id

Mo(text) == Markup("<mo>" \o text \o "</mo>")

RECURSIVE unparserML(_, _)

\* The ARG case; none of the base functions of the model has an unparserML
\* entry of its own.
unparserMLArg(tree, dbg) ==
    IF ~Has(tree, "args") THEN MarkupCatch(dbg)
    ELSE IF Len(tree.args) = 0
    THEN Cat(unparserML(Property(tree, "expr"), dbg), Markup("<mrow><mo>(</mo><mo>)</mo></mrow>"))
    ELSE IF ~Has(tree, "expr") \/ tree.expr = null THEN MarkupCatch(dbg)
    ELSE Cat(Cat(Cat(IF Has(tree.expr, "type") /\ tree.expr.type = "NAME" /\ Has(tree.expr, "id")
                     THEN Markup("<mi>" \o substSymbol(tree.expr.id) \o "</mi>")
                     ELSE unparserML(tree.expr, dbg),
                     Markup("<mrow><mo>(</mo>")),
                 CatEach([k \in 1..Len(tree.args) |-> unparserML(tree.args[k], dbg)], "", "", "<mo>,</mo>")),
             Markup("<mo>)</mo></mrow>"))

\* The cases of the switch on tree.type.
unparserMLNode(tree, dbg) ==
    CASE tree.type \in {"+", "-", "=", "+=", "-="} ->
             Cat(Cat(unparserML(Property(tree, "left"), dbg), Mo(tree.type)), unparserML(Property(tree, "right"), dbg))
      [] tree.type = "()" -> Cat(Cat(Mo("("), unparserML(Property(tree, "right"), dbg)), Mo(")"))
      [] tree.type = "*" ->
             Cat(Cat(unparserML(Property(tree, "left"), dbg), Mo("&times;")), unparserML(Property(tree, "right"), dbg))
      [] tree.type = "^" ->
             Cat(Cat(Cat(Cat(Markup("<msup><mrow>"), unparserML(Property(tree, "left"), dbg)),
                         Markup("</mrow><mrow>")),
                     unparserML(Property(tree, "right"), dbg)),
                 Markup("</mrow></msup>"))
      [] tree.type = "+_" -> Cat(Mo("+"), unparserML(Property(tree, "right"), dbg))
      [] tree.type = "-_" -> Cat(Mo("-"), unparserML(Property(tree, "right"), dbg))
      [] tree.type = "++_" -> Cat(Mo("++"), unparserML(Property(tree, "right"), dbg))
      [] tree.type = "--_" -> Cat(Mo("--"), unparserML(Property(tree, "right"), dbg))
      [] tree.type = "_++" -> Cat(unparserML(Property(tree, "left"), dbg), Mo("++"))
      [] tree.type = "_--" -> Cat(unparserML(Property(tree, "left"), dbg), Mo("--"))
      [] tree.type = "NAME" ->
             IF ~Has(tree, "id") THEN MarkupCatch(dbg)
             ELSE Markup("<mi>" \o substSymbol(tree.id) \o "</mi>")
      [] tree.type = "LIST" ->
             IF ~Has(tree, "list") THEN MarkupCatch(dbg)
             ELSE Cat(Cat(Markup("<mtable>"),
                          CatEach([k \in 1..Len(tree.list) |-> unparserML(tree.list[k], dbg)], "<mtr><mtd>", "</mtd></mtr>", "")),
                      Markup("</mtable>"))
      [] tree.type = "RANGE" ->
             IF Has(tree, "start") /\ Has(tree, "stop")
             THEN Cat(Cat(unparserML(tree.start, dbg), Mo(":")), unparserML(tree.stop, dbg))
             ELSE Mo(":")
      [] tree.type = "ENDRANGE" -> Markup("<mi>end</mi>")
      [] tree.type = ":" -> Mo(":")
      [] tree.type = "ARG" -> unparserMLArg(tree, dbg)
      [] tree.type = "RETLIST" -> Markup("<mi>RETLIST</mi>")
      [] tree.type = "CmdWList" ->
             IF ~Has(tree, "args") THEN MarkupCatch(dbg)
             ELSE Cat(Cat(Markup("<mtext>" \o (IF Has(tree, "id") THEN tree.id ELSE "undefined") \o " "),
                          CatEach([k \in 1..Len(tree.args) |-> unparserML(tree.args[k], dbg)], "", "", " ")),
                      Markup("</mtext>"))
      [] OTHER -> Markup("<mi>invalid</mi>")

\* Unparse recursively expression tree generating MathML representation:
\* with the debug flag set the catch clause throws the exception again.
\* Numbers, strings and tensors are rendered by ComplexDecimal.unparseML,
\* CharString.unparseML and MultiArray.unparseML.
unparserML(tree, dbg) ==
    IF tree = undefined THEN Markup("<mi>undefined</mi>")
    ELSE IF tree = null THEN MarkupCatch(dbg)
    ELSE IF isNumber(tree) THEN Markup("<mn>" \o unparseNumber(tree) \o "</mn>")
    ELSE IF isString(tree) THEN Markup("<mtext>" \o unparseString(tree) \o "</mtext>")
    ELSE IF isTensor(tree) THEN Markup("<mtext>" \o unparseTensor(tree) \o "</mtext>")
    ELSE IF ~Has(tree, "type") THEN Markup("<mi>invalid</mi>")
    ELSE unparserMLNode(tree, dbg)

\* Unparse Expression tree in MathML: the markup of unparserML inside the
\* math element (the replace matches no markup of the model).
UnparseMLWrap(r) ==
    IF r.threw THEN r
    ELSE Markup("<math xmlns = \"http://www.w3.org/1998/Math/MathML\" display=\"block\">"
                    \o r.text \o "</math>")

UnparseML(tree, dbg) == UnparseMLWrap(unparserML(tree, dbg))

\* The value the renderers hand to their caller, as the history records it.
Rendered(text) == [cls |-> "Text", type |-> "text", text |-> text]

\* A call of Unparse(tree).
CallUnparse(tree) ==
    /\ Running
    /\ last' = [op |-> "Unparse", tree |-> tree, names |-> {}, removed |-> {}, error |-> NoError,
                result |-> Rendered(Unparse(tree)), cmdCalls |-> 0]
    /\ UNCHANGED <<nameTable, localTable, readonlyNameTable, baseFunctionTable, exitStatus, debug>>

CallUnparseMLDone(tree, r) ==
    /\ Running
    /\ last' = [op |-> "UnparseML", tree |-> tree, names |-> {}, removed |-> {},
                error |-> IF r.threw THEN TypeError("Cannot read properties of undefined")
                          ELSE NoError,
                result |-> IF r.threw THEN undefined ELSE Rendered(r.text), cmdCalls |-> 0]
    /\ UNCHANGED <<nameTable, localTable, readonlyNameTable, baseFunctionTable, exitStatus, debug>>

\* A call of UnparseML(tree).
CallUnparseML(tree) == CallUnparseMLDone(tree, UnparseML(tree, debug))

\* The setter of the debug flag.
SetDebug(value) ==
    /\ Running
    /\ debug' = value
    /\ last' = [op |-> "debug", tree |-> nodeListEmpty, names |-> {}, removed |-> {},
                error |-> NoError, result |-> undefined, cmdCalls |-> 0]
    /\ UNCHANGED <<nameTable, localTable, readonlyNameTable, baseFunctionTable, exitStatus>>

(***************************************************************************)
(* Programs: the statement lists the parser hands to Evaluate.             *)
(***************************************************************************)
Name(id) == nodeName(id)
Num(n) == newNumber(n)
\* nodeListFirst followed by nodeList for each further element.
ListOf(q) == [cls |-> "Node", type |-> "LIST", list |-> q]
Program(q) == ListOf(q)
Assign(l, r) == nodeOp("=", l, r)
Index(id, q) == nodeArgExpr(nodeName(id), ListOf(q))
\* A matrix row of assignment targets, [t1, t2, ...].
Targets(q) == [cls |-> "MultiArray", type |-> "real", dim |-> <<1, Len(q)>>, array |-> <<q>>]
Matrix(rows) == newTensor([i \in 1..Len(rows) |-> [j \in 1..Len(rows[i]) |-> Num(rows[i][j])]])
End == nodeReserved("ENDRANGE")
Colon == nodeReserved(":")


\* x = 1
SetX == Program(<<Assign(Name("x"), Num(1))>>)
\* x
ReadX == Program(<<Name("x")>>)
\* x = x + 1
IncrementX == Program(<<Assign(Name("x"), nodeOp("+", Name("x"), Num(1)))>>)
\* y = 1
SetY == Program(<<Assign(Name("y"), Num(1))>>)
\* y
ReadY == Program(<<Name("y")>>)
\* x = y++
XGetsYIncremented == Program(<<Assign(Name("x"), nodeOp("_++", Name("y"), Name("y")))>>)
\* true = 0
AssignTrue == Program(<<Assign(Name("true"), Num(0))>>)
\* true = y++
AssignTrueIncrementY == Program(<<Assign(Name("true"), nodeOp("_++", Name("y"), Name("y")))>>)
\* true(1) = 0
IndexedAssignTrue == Program(<<Assign(Index("true", <<Num(1)>>), Num(0))>>)
\* true += 1
CompoundAssignTrue == Program(<<nodeOp("+=", Name("true"), Num(1))>>)
\* [x, true] = 2
MultipleAssignTrue == Program(<<Assign(Targets(<<Name("x"), Name("true")>>), Num(2))>>)
\* true++
IncrementTrue == Program(<<nodeOp("_++", Name("true"), Name("true"))>>)
\* x += 1
CompoundX == Program(<<nodeOp("+=", Name("x"), Num(1))>>)
\* cmd
RunCmd == Program(<<Name("cmd")>>)
\* cmd; true = 0
RunCmdThenFail == Program(<<Name("cmd"), Assign(Name("true"), Num(0))>>)

ReadOnlyAssignments ==
    {AssignTrue, AssignTrueIncrementY, IndexedAssignTrue, CompoundAssignTrue, MultipleAssignTrue}

Programs ==
    {SetX, ReadX, IncrementX, CompoundX, SetY, ReadY, XGetsYIncremented, IncrementTrue, RunCmd,
     RunCmdThenFail}
        \cup ReadOnlyAssignments

EvaluateProgram == \E tree \in Programs : Evaluate(tree)

ClearNames == \E names \in SUBSET {"x", "true"} : Clear(names)

Next == EvaluateProgram \/ Restart \/ ClearNames

Spec == Init /\ [][Next]_vars


(***************************************************************************)
(* Programs with user functions.                                           *)
(***************************************************************************)
Square(e) == nodeOp("^", e, Num(2))
\* f(x) = x^2
DefineF == Program(<<Assign(Index("f", <<Name("x")>>), Square(Name("x")))>>)
\* f(2)
CallF == Program(<<Index("f", <<Num(2)>>)>>)
\* f(f(2))
CallFF == Program(<<Index("f", <<Index("f", <<Num(2)>>)>>)>>)
\* x = 2
SetXTwo == Program(<<Assign(Name("x"), Num(2))>>)
\* g(y) = f(y) + 1
DefineG ==
    Program(<<Assign(Index("g", <<Name("y")>>), nodeOp("+", Index("f", <<Name("y")>>), Num(1)))>>)
\* g(1)
CallG == Program(<<Index("g", <<Num(1)>>)>>)
\* f(x) = (x = 1)
DefineFAssigning ==
    Program(<<Assign(Index("f", <<Name("x")>>),
                     nodeOp("()", Assign(Name("x"), Num(1)), Assign(Name("x"), Num(1))))>>)
\* f(1) = 3
AssignFAtOne == Program(<<Assign(Index("f", <<Num(1)>>), Num(3))>>)
\* x(y) = 3
AssignXAtY == Program(<<Assign(Index("x", <<Name("y")>>), Num(3))>>)

FunctionDefinitions == {DefineF, DefineG, DefineFAssigning, AssignXAtY}

\* f()
CallFNone == Program(<<Index("f", <<>>)>>)
\* f(x++, 2)
CallFTwo == Program(<<Index("f", <<nodeOp("_++", Name("x"), Name("x")), Num(2)>>)>>)

WrongArity == {CallFNone, CallFTwo}

FunctionPrograms ==
    {DefineF, CallF, CallFF, SetXTwo, SetY, DefineG, CallG, DefineFAssigning,
     AssignFAtOne, AssignXAtY}
        \cup WrongArity

EvaluateFunctionProgram == \E tree \in FunctionPrograms : Evaluate(tree)

ClearFunctionNames == \E names \in {{"x"}, {"y"}, {"f"}} : Clear(names)

NextFunction == EvaluateFunctionProgram \/ ClearFunctionNames \/ Restart

SpecFunction == Init /\ [][NextFunction]_vars


(***************************************************************************)
(* Programs with tensors, subscripts and return lists.                     *)
(***************************************************************************)
\* A = [1,2,3;2,3,4]
SetA == Program(<<Assign(Name("A"), Matrix(<<<<1, 2, 3>>, <<2, 3, 4>>>>))>>)
\* A(1) = 0
SetAFirst == Program(<<Assign(Index("A", <<Num(1)>>), Num(0))>>)
\* A(end)
AEnd == Program(<<Index("A", <<End>>)>>)
\* A(:)
AColon == Program(<<Index("A", <<Colon>>)>>)
\* A(1:end)
ARangeEnd == Program(<<Index("A", <<nodeRange(Num(1), End)>>)>>)
\* A(2)
ASecond == Program(<<Index("A", <<Num(2)>>)>>)
\* [x, y] = size(A)
SizeToXY == Program(<<Assign(Targets(<<Name("x"), Name("y")>>), Index("size", <<Name("A")>>))>>)
\* [x, x] = size(A)
SizeToXX == Program(<<Assign(Targets(<<Name("x"), Name("x")>>), Index("size", <<Name("A")>>))>>)
\* [x, y, z] = size(A)
SizeToXYZ ==
    Program(<<Assign(Targets(<<Name("x"), Name("y"), Name("z")>>), Index("size", <<Name("A")>>))>>)
\* [x, y] = 2
TwoToXY == Program(<<Assign(Targets(<<Name("x"), Name("y")>>), Num(2))>>)

MultipleAssignments == {SizeToXY, SizeToXX, SizeToXYZ, TwoToXY}

\* A(end,2)
AEndTwo == Program(<<Index("A", <<End, Num(2)>>)>>)
\* A(2,end)
ATwoEnd == Program(<<Index("A", <<Num(2), End>>)>>)
\* A(:,1)
AColonOne == Program(<<Index("A", <<Colon, Num(1)>>)>>)
\* A(1,:)
AOneColon == Program(<<Index("A", <<Num(1), Colon>>)>>)
\* 1; A(end,2)
OneThenAEndTwo == Program(<<Num(1), Index("A", <<End, Num(2)>>)>>)

SeveralSubscripts == {AEndTwo, ATwoEnd, AColonOne, AOneColon, OneThenAEndTwo}

\* end
EndAlone == Program(<<End>>)
\* :
ColonAlone == Program(<<Colon>>)
\* end + 1
EndPlusOne == Program(<<nodeOp("+", End, Num(1))>>)
\* 1:end
OneToEnd == Program(<<nodeRange(Num(1), End)>>)
\* size(end)
SizeOfEnd == Program(<<Index("size", <<End>>)>>)
\* size(:)
SizeOfColon == Program(<<Index("size", <<Colon>>)>>)
\* x = end
XGetsEnd == Program(<<Assign(Name("x"), End)>>)
\* x = :
XGetsColon == Program(<<Assign(Name("x"), Colon)>>)
\* x(end) = 1
XAtEndGetsOne == Program(<<Assign(Index("x", <<End>>), Num(1))>>)

\* A(size(end), 1)
ASizeEndOne == Program(<<Index("A", <<Index("size", <<End>>), Num(1)>>)>>)
\* A(A(end, 1), 1)
ANestedEndOne == Program(<<Index("A", <<Index("A", <<End, Num(1)>>), Num(1)>>)>>)

EndInsideCalls == {ASizeEndOne, ANestedEndOne}

\* h(M) = M(2)
DefineH == Program(<<Assign(Index("h", <<Name("M")>>), Index("M", <<Num(2)>>))>>)
\* h(A)
CallH == Program(<<Index("h", <<Name("A")>>)>>)

\* The discard target `~`.
Discard == nodeReserved("<~>")
\* [~, y] = size(A)
SizeToDiscardY == Program(<<Assign(Targets(<<Discard, Name("y")>>), Index("size", <<Name("A")>>))>>)
\* [x, ~] = size(A)
SizeToXDiscard == Program(<<Assign(Targets(<<Name("x"), Discard>>), Index("size", <<Name("A")>>))>>)
\* (statement) + 0: the assignment as the operand of another expression.
AsOperand(tree) == Program(<<nodeOp("+", nodeOp("()", tree.list[1], tree.list[1]), Num(0))>>)

\* A
ReadA == Program(<<Name("A")>>)
\* 2; A
TwoThenA == Program(<<Num(2), Name("A")>>)
\* A; 2
AThenTwo == Program(<<Name("A"), Num(2)>>)

BareResults == {ReadA, TwoThenA, AThenTwo, ASecond}

RootAssignments == {SetX, SizeToXY, SizeToDiscardY, SizeToXDiscard}
OperandAssignments == {AsOperand(tree) : tree \in RootAssignments}

EndOutsideIndexing ==
    {EndAlone, ColonAlone, EndPlusOne, OneToEnd, SizeOfEnd, SizeOfColon, XGetsEnd, XGetsColon,
     XAtEndGetsOne}

IndexPrograms ==
    {SetA, SetAFirst, AEnd, AColon, ARangeEnd, ASecond} \cup MultipleAssignments
        \cup SeveralSubscripts \cup EndOutsideIndexing \cup EndInsideCalls \cup {DefineH, CallH}
        \cup RootAssignments \cup OperandAssignments \cup BareResults

EvaluateIndexProgram == \E tree \in IndexPrograms : Evaluate(tree)

ClearIndexNames == \E names \in {{"A"}, {"x"}, {"x", "y"}} : Clear(names)

NextIndex == EvaluateIndexProgram \/ ClearIndexNames \/ Restart

SpecIndex == Init /\ [][NextIndex]_vars


(***************************************************************************)
(* Programs around Clear: variables, a user function, a built-in and a     *)
(* command word, any of which Clear may be asked to remove.                *)
(***************************************************************************)
\* cmd = 1
SetCmd == Program(<<Assign(Name("cmd"), Num(1))>>)

ClearPrograms == {SetX, ReadX, DefineF, CallF, SetCmd, RunCmd, SetA, SizeToXY}

EvaluateClearProgram == \E tree \in ClearPrograms : Evaluate(tree)

ClearAnyNames == \E names \in SUBSET {"x", "f", "cmd", "size", "true"} : Clear(names)

NextClear == EvaluateClearProgram \/ ClearAnyNames \/ Restart

SpecClear == Init /\ [][NextClear]_vars

(***************************************************************************)
(* An interpreter initialized with an external function table, and calls   *)
(* of its entries.                                                         *)
(***************************************************************************)
\* config.externalFunctionTable: entries with selective-evaluation flags,
\* without a mapper property, with mapper false and with mapper true, and a
\* function named like the registered command word.
externalFunctionTable ==
    [held |-> [mapper |-> "undefined", ev |-> <<FALSE, TRUE>>, func |-> "nodes"],
     heldPlain |-> [mapper |-> "false", ev |-> <<FALSE, TRUE>>, func |-> "nodes"],
     heldMap |-> [mapper |-> "true", ev |-> <<FALSE>>, func |-> "nodes"],
     cmd |-> [mapper |-> "false", ev |-> <<>>, func |-> "nodes"]]

\* Evaluator.initialize(config): Object.assign(baseFunctionTable,
\* config.externalFunctionTable) after the constructor.
InitExternal ==
    /\ nameTable = loadNativeTable(Empty)
    /\ localTable = Empty
    /\ readonlyNameTable = DOMAIN nativeNameTable
    /\ baseFunctionTable =
          [k \in DOMAIN InitialBaseFunctionTable \cup DOMAIN externalFunctionTable |->
              IF k \in DOMAIN externalFunctionTable THEN externalFunctionTable[k]
              ELSE InitialBaseFunctionTable[k]]
    /\ exitStatus = response.OK
    /\ debug = FALSE
    /\ last = [op |-> "init", tree |-> nodeListEmpty, names |-> {}, removed |-> {}, error |-> NoError,
               result |-> undefined, cmdCalls |-> 0]

\* x++
PostIncrementX == nodeOp("_++", Name("x"), Name("x"))
\* held(x++, x++)
HeldCall == Program(<<Index("held", <<PostIncrementX, PostIncrementX>>)>>)
\* heldPlain(x++, x++)
HeldPlainCall == Program(<<Index("heldPlain", <<PostIncrementX, PostIncrementX>>)>>)
\* heldMap(x++)
HeldMapCall == Program(<<Index("heldMap", <<PostIncrementX>>)>>)

FlaggedCalls == {HeldCall, HeldPlainCall, HeldMapCall}

\* size(z) = 3
DefineSize == Program(<<Assign(Index("size", <<Name("z")>>), Num(3))>>)
\* sz = 3
SetSz == Program(<<Assign(Name("sz"), Num(3))>>)
\* size(x)
CallSize == Program(<<Index("size", <<Name("x")>>)>>)
\* sz(x)
CallSz == Program(<<Index("sz", <<Name("x")>>)>>)
\* p(y) = y(1)
DefineP == Program(<<Assign(Index("p", <<Name("y")>>), Index("y", <<Num(1)>>))>>)
\* p(2)
CallP == Program(<<Index("p", <<Num(2)>>)>>)
\* u(x++)
CallU == Program(<<Index("u", <<PostIncrementX>>)>>)

Callees == {DefineSize, SetSz, CallSize, CallSz, DefineP, CallP, CallU}

ExternalPrograms ==
    {SetX, ReadX, SetY, ReadY, IncrementX, SetCmd, RunCmd} \cup FlaggedCalls \cup Callees

EvaluateExternalProgram == \E tree \in ExternalPrograms : Evaluate(tree)

ClearExternalNames == \E names \in {{"x"}, {"y"}, {"ans"}, {"cmd"}} : Clear(names)

NextExternal == EvaluateExternalProgram \/ ClearExternalNames \/ Restart

SpecExternal == InitExternal /\ [][NextExternal]_vars

(***************************************************************************)
(* Programs: compound assignments.                                         *)
(***************************************************************************)
\* A(2) += 1
ASecondPlusOne == Program(<<nodeOp("+=", Index("A", <<Num(2)>>), Num(1))>>)
\* A(1, 2) += 1
AOneTwoPlusOne == Program(<<nodeOp("+=", Index("A", <<Num(1), Num(2)>>), Num(1))>>)
\* x(1) += 1
XFirstPlusOne == Program(<<nodeOp("+=", Index("x", <<Num(1)>>), Num(1))>>)
\* f(1) += 1
FFirstPlusOne == Program(<<nodeOp("+=", Index("f", <<Num(1)>>), Num(1))>>)
\* x(1) += y++
XFirstPlusYIncremented ==
    Program(<<nodeOp("+=", Index("x", <<Num(1)>>), nodeOp("_++", Name("y"), Name("y")))>>)

CompoundIndexed ==
    {ASecondPlusOne, AOneTwoPlusOne, XFirstPlusOne, FFirstPlusOne, XFirstPlusYIncremented}

\* [x, y] += y++
XYPlusYIncremented ==
    Program(<<nodeOp("+=", Targets(<<Name("x"), Name("y")>>), nodeOp("_++", Name("y"), Name("y")))>>)
\* [x] += 1
XRowPlusOne == Program(<<nodeOp("+=", Targets(<<Name("x")>>), Num(1))>>)

CompoundPrograms ==
    {SetA, SetX, SetY, DefineF, ASecond, CompoundX, XYPlusYIncremented, XRowPlusOne}
        \cup CompoundIndexed

EvaluateCompoundProgram == \E tree \in CompoundPrograms : Evaluate(tree)

ClearCompoundNames == \E names \in {{"A"}, {"x"}, {"y"}, {"f"}} : Clear(names)

NextCompound == EvaluateCompoundProgram \/ ClearCompoundNames \/ Restart

SpecCompound == Init /\ [][NextCompound]_vars


(***************************************************************************)
(* Trees handed to the renderers: expressions, and nodes that are          *)
(* malformed or only partly built.                                         *)
(***************************************************************************)
Operands == {Num(1), Num(2), Num(3), Name("x"), Name("Inf")}

\* (1+2)*3 and 1+(2*3) as nodeOp builds them, without a '()' node.
SumTimes == nodeOp("*", nodeOp("+", Num(1), Num(2)), Num(3))
SumOfProduct == nodeOp("+", Num(1), nodeOp("*", Num(2), Num(3)))

Expressions ==
    {nodeOp(op, a, b) : op \in {"+", "*"}, a \in {Num(1), Num(2)}, b \in {Num(2), Num(3)}}
        \cup {SumTimes, SumOfProduct, nodeOp("()", nodeOp("+", Num(1), Num(2)), Num(0)),
              nodeOp("-_", Num(1), Num(0)), nodeOp("^", Num(2), Num(3))}

\* A NAME node without id, an ARG node without args, a LIST node without
\* list, a node without type, null and undefined.
Malformed ==
    {[cls |-> "Node", type |-> "NAME"], [cls |-> "Node", type |-> "ARG", expr |-> Name("f")],
     [cls |-> "Node", type |-> "LIST"], [cls |-> "Node"], null, undefined}

RenderTrees ==
    Operands \cup Expressions \cup Malformed
        \cup {nodeOp("+", Num(1), bad) : bad \in Malformed}
        \cup {Index("f", <<a>>) : a \in Operands \cup Malformed}
        \cup {Program(<<a>>) : a \in Malformed}
        \cup {nodeRange(Num(1), End), Index("A", <<End, Colon>>), nodeOp("_++", Name("x"), Name("x")),
              Assign(Name("x"), Num(1)), nodeCmdWList(Name("cmd"), <<>>)}

UnparseTree == \E tree \in RenderTrees : CallUnparse(tree)

UnparseMLTree == \E tree \in RenderTrees : CallUnparseML(tree)

SwitchDebug == \E value \in BOOLEAN : SetDebug(value)

NextRender == UnparseTree \/ UnparseMLTree \/ SwitchDebug

SpecRender == Init /\ [][NextRender]_vars


(***************************************************************************)
(* Properties.                                                             *)
(***************************************************************************)
Evaluated(tree) == last.op = "Evaluate" /\ last.tree = tree
Bound(id) == id \in DOMAIN nameTable /\ Len(nameTable[id].args) = 0 /\ isNumber(nameTable[id].expr)

\* C1: an assignment whose target (plain, indexed, compound, or one of the
\* targets of a multiple assignment) is a read-only name fails with an
\* evaluation error, reduces nothing of its right side, binds no other
\* target and leaves the name table as it was.
ReadOnlyAssignmentRejected ==
    [][(last'.op = "Evaluate" /\ last'.tree \in ReadOnlyAssignments) =>
          /\ last'.error.name = "EvalError"
          /\ last'.cmdCalls = 0
          /\ nameTable' = nameTable]_vars

\* C1 witness: `true = y++` was rejected while y was bound.
ReadOnlyAssignmentRejectedWitness ==
    /\ Evaluated(AssignTrueIncrementY)
    /\ last.error.name = "EvalError"
    /\ Bound("y")

\* C2: every read-only name stays bound as a variable holding the value
\* it was seeded with.
ReadOnlyNamesKeepSeed ==
    \A k \in DOMAIN nativeNameTable :
        /\ k \in DOMAIN nameTable
        /\ nameTable[k] = [args |-> <<>>, expr |-> nativeNameTable[k]]

\* C3: the exit status after Evaluate is EVAL_ERROR when the call raised,
\* EXTERNAL when it returned after running a command word, OK otherwise,
\* whatever the status before the call was.
ExitStatusDecidedByCall ==
    last.op = "Evaluate" =>
        exitStatus = IF last.error.name # "none" THEN response.EVAL_ERROR
                     ELSE IF last.cmdCalls > 0 THEN response.EXTERNAL
                     ELSE response.OK

\* C3 witness: a call that ran a command word and then raised.
ExitStatusDecidedByCallWitness ==
    /\ Evaluated(RunCmdThenFail)
    /\ last.cmdCalls = 1
    /\ last.error.name = "EvalError"
    /\ exitStatus = response.EVAL_ERROR

\* C4: in `x = y++` with y bound to v the right side is reduced once:
\* afterwards y holds v + 1 and x holds v.
RightSideReducedOnce ==
    [][(last'.op = "Evaluate" /\ last'.tree = XGetsYIncremented /\ Bound("y")) =>
          /\ last'.error.name = "none"
          /\ nameTable'["y"].expr = newNumber(nameTable["y"].expr.re + 1)
          /\ nameTable'["x"].expr = newNumber(nameTable["y"].expr.re)]_vars

\* C8: reading a bound x returns its value and leaves the binding alone,
\* so two consecutive reads agree (after `x = 1` both give 1); and each
\* evaluation of `x = x + 1` with x bound to v leaves x bound to v + 1, so
\* two of them leave v + 2.
AssignmentIdempotence ==
    [][/\ (last'.op = "Evaluate" /\ last'.tree = ReadX /\ Bound("x")) =>
             /\ last'.error.name = "none"
             /\ last'.result.list = <<nameTable["x"].expr>>
             /\ nameTable'["x"] = nameTable["x"]
       /\ (Evaluated(SetX) /\ last.error.name = "none"
             /\ last'.op = "Evaluate" /\ last'.tree = ReadX) =>
             last'.error.name = "none" /\ last'.result.list = <<Num(1)>>
       /\ (Evaluated(ReadX) /\ last.error.name = "none" /\ Bound("x")
             /\ last'.op = "Evaluate" /\ last'.tree = ReadX) =>
             last'.result = last.result
       /\ (last'.op = "Evaluate" /\ last'.tree = IncrementX /\ Bound("x")) =>
             /\ last'.error.name = "none"
             /\ nameTable'["x"] = [args |-> <<>>, expr |-> newNumber(nameTable["x"].expr.re + 1)]]_vars

\* C8 witness: x = 1 followed by two evaluations of x = x + 1.
AssignmentIdempotenceWitness ==
    /\ Evaluated(IncrementX)
    /\ last.error.name = "none"
    /\ nameTable["x"].expr = Num(3)


FunctionEntry(params, body) == [args |-> [i \in 1..Len(params) |-> Name(params[i])], expr |-> body]
Holds(id, entry) == id \in DOMAIN nameTable /\ nameTable[id] = entry
FIsSquare == Holds("f", FunctionEntry(<<"x">>, Square(Name("x"))))
GIsFPlusOne == Holds("g", FunctionEntry(<<"y">>, nodeOp("+", Index("f", <<Name("y")>>), Num(1))))

\* C5: a call of a user function returns the value of its body under the
\* bindings of its parameters to the reduced arguments: with f(x) = x^2,
\* f(2) is 4 and f(f(2)) is 16, whether or not a global x exists; with
\* g(y) = f(y) + 1, g(1) is 2.
UserFunctionCallBindsArguments ==
    [][(last'.op = "Evaluate" /\ FIsSquare) =>
          /\ last'.tree = CallF =>
                last'.error.name = "none" /\ last'.result.list = <<Num(4)>>
          /\ last'.tree = CallFF =>
                last'.error.name = "none" /\ last'.result.list = <<Num(16)>>
          /\ (last'.tree = CallG /\ GIsFPlusOne) =>
                last'.error.name = "none" /\ last'.result.list = <<Num(2)>>]_vars

\* C6: `f(p) = body` evaluated while p is unbound leaves f bound to the
\* function entry with parameter p and the unevaluated body, creates no
\* variable p, and a following call f(2) of f(x) = x^2 yields 4.
FunctionDefinitionStored ==
    [][/\ \A tree \in FunctionDefinitions :
            LET target == tree.list[1].left
                p == target.args[1].id
            IN (last'.op = "Evaluate" /\ last'.tree = tree /\ p \notin DOMAIN nameTable) =>
                  /\ target.expr.id \in DOMAIN nameTable'
                  /\ nameTable'[target.expr.id] = FunctionEntry(<<p>>, tree.list[1].right)
                  /\ p \notin DOMAIN nameTable'
       /\ (Evaluated(DefineF) /\ last.error.name = "none"
             /\ last'.op = "Evaluate" /\ last'.tree = CallF) =>
             last'.error.name = "none" /\ last'.result.list = <<Num(4)>>]_vars

IndexedForms == {DefineF, DefineG, AssignXAtY, AssignFAtOne}
Subscripted(tree) == tree.list[1].left.expr.id
SubscriptOf(tree) == tree.list[1].left.args[1]
NotADefinition(tree) ==
    SubscriptOf(tree).cls # "Node" \/ SubscriptOf(tree).type # "NAME"
        \/ SubscriptOf(tree).id \in DOMAIN nameTable
IsFunctionEntry(table, id) == id \in DOMAIN table /\ Len(table[id].args) > 0
\* The subscript an indexed form with a literal or a bound name reduces to.
SubscriptValue(tree) ==
    IF isValue(SubscriptOf(tree)) THEN SubscriptOf(tree) ELSE nameTable[SubscriptOf(tree).id].expr

\* C7: `g(a) = e` evaluated while a is not a bare name or is a bound name
\* neither creates nor replaces a function entry for g; with e = 3 the name
\* table afterwards is the one setItems yields for g, the value of a and 3,
\* and the statement fails where setItems fails.
SubscriptedTargetIsIndexed ==
    [][\A tree \in IndexedForms :
          (last'.op = "Evaluate" /\ last'.tree = tree /\ NotADefinition(tree)) =>
             /\ IsFunctionEntry(nameTable', Subscripted(tree)) =>
                   /\ Subscripted(tree) \in DOMAIN nameTable
                   /\ nameTable'[Subscripted(tree)] = nameTable[Subscripted(tree)]
             /\ tree \in {AssignXAtY, AssignFAtOne} =>
                   LET r == setItems(Subscripted(tree), <<linearize(SubscriptValue(tree))>>, Num(3), Current)
                   IN IF Threw(r)
                      THEN last'.error = r.e /\ nameTable' = nameTable
                      ELSE last'.error.name = "none" /\ nameTable' = r.s.nameTable]_vars

\* C7 witness: x(y) = 3 stored 3 in the variable x while y was bound.
SubscriptedTargetIsIndexedWitness ==
    /\ Evaluated(AssignXAtY)
    /\ last.error.name = "none"
    /\ Bound("y")
    /\ "x" \in DOMAIN nameTable
    /\ nameTable["x"].args = <<>>
    /\ isTensor(nameTable["x"].expr)
    /\ LinearItem(nameTable["x"].expr, 1) = Num(3)


BoundToTensor(id) ==
    id \in DOMAIN nameTable /\ nameTable[id].args = <<>> /\ isTensor(nameTable[id].expr)
Variable(v) == [args |-> <<>>, expr |-> v]
TargetsOf(tree) == tree.list[1].left.array[1]
\* The name table after binding the targets from index i on, left to right,
\* to the values of a return list.
RECURSIVE BindFrom(_, _, _, _)
BindFrom(i, targets, vals, table) ==
    IF i > Len(targets) THEN table
    ELSE BindFrom(i + 1, targets, vals, Put(table, targets[i].id, Variable(vals[i])))

\* C9: `[t0,...,tk-1] = size(A)` binds target ti to the value the return
\* list's selector gives for (k, i), left to right; with more targets than
\* values, and for `[x, y] = 2`, the evaluation fails with the evaluation
\* error that names the first missing element.
MultipleAssignmentBindsReturnList ==
    [][\A tree \in MultipleAssignments :
          (last'.op = "Evaluate" /\ last'.tree = tree) =>
             LET k == Len(TargetsOf(tree))
                 rhs == tree.list[1].right
                 list == isNumber(rhs) \/ BoundToTensor("A")
                 vals == IF isNumber(rhs) THEN <<rhs>>
                         ELSE [i \in 1..2 |-> ValsSelector(
                                   [d \in 1..2 |-> newNumber(nameTable["A"].expr.dim[d])], k, i - 1, Current).v]
             IN list =>
                  IF k <= Len(vals)
                  THEN /\ last'.error.name = "none"
                       /\ nameTable' = BindFrom(1, TargetsOf(tree), vals, nameTable)
                  ELSE /\ last'.error = UndefinedElement(Len(vals))
                       /\ last'.error.name = "EvalError"]_vars

\* C9 witness: [x, y] = size(A) bound x to 2 and y to 3.
MultipleAssignmentBindsReturnListWitness ==
    /\ Evaluated(SizeToXY)
    /\ last.error.name = "none"
    /\ BoundToTensor("A")
    /\ Holds("x", Variable(Num(2)))
    /\ Holds("y", Variable(Num(3)))

\* C10: with A bound to a tensor of linear length n, A(end) is element n of
\* A, and A(:) and A(1:end) are the elements 1..n of A.
SingleSubscriptEndIsLinearLength ==
    [][(last'.op = "Evaluate" /\ BoundToTensor("A")) =>
          LET M == nameTable["A"].expr
              n == newNumber(linearLength(M))
          IN /\ last'.tree = AEnd =>
                   /\ last'.error.name = "none"
                   /\ last'.result.list = <<getItems(M, "A", <<n>>, Current).v>>
             /\ last'.tree \in {AColon, ARangeEnd} =>
                   /\ last'.error.name = "none"
                   /\ last'.result.list = <<getItems(M, "A", <<expandRange(Num(1), n)>>, Current).v>>]_vars


\* The subscripts A(s0, s1) stands for when `end` and `:` in position k mean
\* the size of dimension k of the tensor M.
DimensionSubscripts(tree, M) ==
    LET args == tree.list[Len(tree.list)].args
    IN [k \in 1..Len(args) |->
           IF args[k].type = "ENDRANGE" THEN newNumber(getDimension(M, k - 1))
           ELSE IF args[k].type = ":"
           THEN expandRange(Num(1), newNumber(getDimension(M, k - 1)))
           ELSE args[k]]

\* C11: with A bound to a tensor and two subscripts, `end` in position k is
\* the size of dimension k and `:` in position k is the range over that
\* dimension: A(end,2), A(2,end), A(:,1) and A(1,:) yield the elements
\* getItems gives for those subscripts, also when the indexing is the second
\* statement of a list.
SeveralSubscriptsEndIsDimension ==
    [][\A tree \in SeveralSubscripts :
          (last'.op = "Evaluate" /\ last'.tree = tree /\ BoundToTensor("A")) =>
             /\ last'.error.name = "none"
             /\ last'.result.list[Len(tree.list)] =
                   getItems(nameTable["A"].expr, "A",
                            DimensionSubscripts(tree, nameTable["A"].expr), Current).v]_vars


\* C12: `end` and `:` reduced where no indexing of a bound tensor variable
\* encloses them (statement root, operand, range bound, argument of a
\* built-in, right side of an assignment, subscript of a target that is not
\* a tensor) end the statement with a SyntaxError and nothing else.
EndOutsideIndexingIsSyntaxError ==
    [][\A tree \in EndOutsideIndexing :
          (last'.op = "Evaluate" /\ last'.tree = tree /\ ~BoundToTensor("x")) =>
             last'.error.name = "SyntaxError"]_vars


\* C13: after Clear() the name table holds the seeded read-only names only,
\* the local table is empty, the read-only list is the initial one and the
\* base function table is the one initialization built.
ClearRestoresInitialState ==
    (last.op = "Clear" /\ last.names = {}) =>
        /\ nameTable = loadNativeTable(Empty)
        /\ localTable = Empty
        /\ readonlyNameTable = DOMAIN nativeNameTable
        /\ baseFunctionTable = InitialBaseFunctionTable

\* The statement that reads the name id.
ReadOf(id) == IF id = "f" THEN CallF ELSE Program(<<Name(id)>>)
Removable == {"x", "f", "cmd"}

\* Clear(names) removes from the name table the named entries that are not
\* read-only and leaves the other entries and the read-only list alone.
ClearRemovesNamed ==
    (last'.op = "Clear" /\ last'.names # {}) =>
        /\ nameTable' = [k \in DOMAIN nameTable \ (last'.names \ readonlyNameTable) |-> nameTable[k]]
        /\ readonlyNameTable' = readonlyNameTable

\* A read of the name id right after Clear removed it fails as undefined.
ReadOfRemovedFails(id) ==
    (last.op = "Clear" /\ id \in last.removed /\ last'.op = "Evaluate" /\ last'.tree = ReadOf(id)) =>
        last'.error = EvalError("undefined.")

\* C14 as stated: Clear(n1..nk) removes exactly the named entries that are
\* not read-only, and a later read of any removed name fails as undefined.
ClearRemovesExactlyNamed ==
    [][ClearRemovesNamed /\ \A id \in Removable : ReadOfRemovedFails(id)]_vars

\* C14 amended: the same, the read failing as undefined for every removed
\* name that is not a registered command word; a removed name that is one
\* runs the command when read as a statement.
ClearRemovesExactlyNamedUnlessCommand ==
    [][/\ ClearRemovesNamed
       /\ \A id \in Removable \ commandsTable : ReadOfRemovedFails(id)
       /\ \A id \in Removable \cap commandsTable :
             (last.op = "Clear" /\ id \in last.removed
                 /\ last'.op = "Evaluate" /\ last'.tree = ReadOf(id)) =>
                /\ last'.error.name = "none"
                /\ last'.cmdCalls = 1
                /\ exitStatus' = response.EXTERNAL]_vars

\* C14 witness: Clear(x, true) removed the variable x and left the user
\* function f and the read-only name true.
ClearRemovesExactlyNamedWitness ==
    /\ last.op = "Clear"
    /\ last.names = {"x", "true"}
    /\ last.removed = {"x"}
    /\ "x" \notin DOMAIN nameTable
    /\ FIsSquare
    /\ nameTable["true"] = [args |-> <<>>, expr |-> nativeNameTable["true"]]


\* C15: a call of the user function f with another number of arguments than
\* f has parameters (f() and f(x++, 2) for f of one parameter) fails with the
\* evaluation error of the arity test; no argument is reduced, the name
\* table and the local table are the ones before the call.
WrongArityRejected ==
    [][\A tree \in WrongArity :
          (last'.op = "Evaluate" /\ last'.tree = tree /\ IsFunctionEntry(nameTable, "f")) =>
             /\ last'.error = EvalError("invalid number of arguments in function.")
             /\ exitStatus' = response.EVAL_ERROR
             /\ nameTable' = nameTable
             /\ localTable' = localTable]_vars

\* C15 witness: f(x++, 2) was rejected while f(x) = x^2 and a variable x
\* were bound.
WrongArityRejectedWitness ==
    /\ Evaluated(CallFTwo)
    /\ last.error = EvalError("invalid number of arguments in function.")
    /\ FIsSquare
    /\ Bound("x")


\* The malformed nodes whose rendering raises inside the renderer.
Failing == Malformed \ {undefined, [cls |-> "Node"]}

\* C16: neither renderer raises, whatever the tree and the debug flag:
\* Unparse returns text and UnparseML returns markup, with '<ERROR>' and
\* '<mi>error</mi>' standing for a node whose rendering failed.
RenderersNeverRaise ==
    /\ last.op \in {"Unparse", "UnparseML"} =>
          last.error.name = "none" /\ last.result.cls = "Text"
    /\ (last.op = "Unparse" /\ last.tree \in Failing) => last.result.text = "<ERROR>"
    /\ (last.op = "Unparse" /\ \E bad \in Failing : last.tree = nodeOp("+", Num(1), bad)) =>
          last.result.text = "1+<ERROR>"
    /\ (last.op = "UnparseML" /\ last.tree \in Failing /\ last.error.name = "none") =>
          last.result = Rendered(UnparseMLWrap(Markup("<mi>error</mi>")).text)

\* The value the expression tree reduces to in the current interpreter.
ValueOf(tree) == Evaluator(tree, RootContext, EvaluateEntry(Current)).v

\* C17: the text of Unparse determines the expression up to evaluation: two
\* expression trees rendered one after the other to the same text reduce to
\* the same value, and a NAME node is rendered as its identifier.
UnparseDeterminesValue ==
    [][/\ (last.op = "Unparse" /\ last'.op = "Unparse"
              /\ last.tree \in Expressions /\ last'.tree \in Expressions
              /\ last.result = last'.result) =>
             ValueOf(last.tree) = ValueOf(last'.tree)
       /\ (last'.op = "Unparse" /\ last'.tree \in {Name("x"), Name("Inf")}) =>
             last'.result.text = last'.tree.id]_vars

(***************************************************************************)
(* C18: the catch clause of the name definition.                          *)
(***************************************************************************)
\* The assignments to the plain name x whose value is not a literal.
NameDefinitions == {IncrementX, CompoundX, XGetsYIncremented}

\* The expression reduced for the target: the right side, or
\* `name op right` for a compound form.
ValueExpression(tree) ==
    IF tree.list[1].type = "="
    THEN tree.list[1].right
    ELSE nodeOp(IF tree.list[1].type = "+=" THEN "+" ELSE "-", tree.list[1].left, tree.list[1].right)

\* What reducing that expression yields in the current state.
ValueReduction(tree) == Evaluator(ValueExpression(tree), RootContext, EvaluateEntry(Current))

\* C18: when the value of a plain-name target cannot be reduced, Evaluate
\* raises the error of that reduction with exit status EVAL_ERROR and leaves
\* the target bound as a variable to the unevaluated expression (the right
\* side, or `name op right` for a compound form), whatever the name was
\* bound to before.
FailedNameDefinitionStoresExpression ==
    [][(\E tree \in NameDefinitions :
            /\ last'.op = "Evaluate" /\ last'.tree = tree
            /\ Caught(ValueReduction(tree)))
       => /\ last'.error = ValueReduction(last'.tree).e
          /\ exitStatus' = response.EVAL_ERROR
          /\ "x" \in DOMAIN nameTable'
          /\ nameTable'["x"] = Variable(ValueExpression(last'.tree))]_vars

\* x += 1 with x unbound has failed and left x bound to `x + 1`.
FailedNameDefinitionStoresExpressionWitness ==
    /\ last.op = "Evaluate" /\ last.tree = CompoundX
    /\ last.error.name = "EvalError"
    /\ exitStatus = response.EVAL_ERROR
    /\ "x" \in DOMAIN nameTable
    /\ nameTable["x"] = Variable(nodeOp("+", Name("x"), Num(1)))

(***************************************************************************)
(* C19: variables that refer to themselves.                                *)
(***************************************************************************)
\* The identifiers of the NAME nodes of a tree.
RECURSIVE NamesIn(_)
NamesIn(tree) ==
    IF tree.cls # "Node" THEN {}
    ELSE IF tree.type = "NAME" THEN {tree.id}
    ELSE (IF Has(tree, "left") THEN NamesIn(tree.left) ELSE {})
         \cup (IF Has(tree, "right") THEN NamesIn(tree.right) ELSE {})
         \cup (IF Has(tree, "expr") THEN NamesIn(tree.expr) ELSE {})
         \cup (IF Has(tree, "args")
               THEN UNION {NamesIn(tree.args[k]) : k \in 1..Len(tree.args)}
               ELSE {})

\* The names bound as variables.
Variables == {id \in DOMAIN nameTable : nameTable[id].args = <<>>}

\* The variables the stored expressions of the variables in ids name.
Referred(ids) == UNION {NamesIn(nameTable[id].expr) : id \in ids} \cap Variables

\* The variables reached from ids in one or more steps.
RECURSIVE ReachedFrom(_, _)
ReachedFrom(ids, seen) ==
    IF Referred(ids) \subseteq seen THEN seen
    ELSE ReachedFrom(Referred(ids) \ seen, seen \cup Referred(ids))

\* C19: no variable of the name table has a stored expression that refers to
\* the variable itself, directly or through other variables, and a read of
\* x or y never exhausts the stack nor runs forever.
NoVariableRefersToItself ==
    /\ \A id \in Variables : id \notin ReachedFrom({id}, {})
    /\ (last.op = "Evaluate" /\ last.tree \in {ReadX, ReadY}) =>
          last.error.name \notin {"RangeError", "Hang"}

(***************************************************************************)
(* C20: a multiple assignment that fails.                                  *)
(***************************************************************************)
\* C20: a multiple assignment that fails at one of its targets leaves the
\* name table as it was before the statement: no target, those before the
\* failing one included, has a new binding.
FailedMultipleAssignmentBindsNothing ==
    [][\A tree \in MultipleAssignments :
          (last'.op = "Evaluate" /\ last'.tree = tree /\ last'.error.name # "none")
             => nameTable' = nameTable]_vars

(***************************************************************************)
(* C21: the local table between calls of Evaluate.                         *)
(***************************************************************************)
\* C21: between calls of Evaluate the local table holds no frame, whether
\* the last call returned or raised.
LocalTableEmptyBetweenCalls == DOMAIN localTable = {}

(***************************************************************************)
(* C22: `end` below a call inside an indexing.                             *)
(***************************************************************************)
\* The first value of the return list of size(v).
FirstOfSize(v) == reduceIfReturnList(baseFunction("size", <<v>>, Current)).v

\* C22: with A bound to a tensor, the `end` of A(size(end), 1) is resolved
\* past the call of the built-in against A (the size of its first
\* dimension), and the `end` of A(A(end, 1), 1) against the inner indexing.
EndResolvesPastCalls ==
    [][(last'.op = "Evaluate" /\ BoundToTensor("A")) =>
          LET M == nameTable["A"].expr
              rows == newNumber(getDimension(M, 0))
          IN /\ last'.tree = ASizeEndOne =>
                   /\ last'.error.name = "none"
                   /\ last'.result.list =
                         <<getItems(M, "A", <<FirstOfSize(rows), Num(1)>>, Current).v>>
             /\ last'.tree = ANestedEndOne =>
                   /\ last'.error.name = "none"
                   /\ last'.result.list =
                         <<getItems(M, "A",
                                    <<getItems(M, "A", <<rows, Num(1)>>, Current).v, Num(1)>>,
                                    Current).v>>]_vars

(***************************************************************************)
(* C23: indexing a parameter inside a function body.                       *)
(***************************************************************************)
\* C23: with h(M) = M(2) defined and A bound to a tensor, the call h(A)
\* yields the element the indexing A(2) of the global variable yields.
ParameterIndexingSelectsElements ==
    [][(/\ last'.op = "Evaluate" /\ last'.tree = CallH
        /\ BoundToTensor("A")
        /\ Holds("h", FunctionEntry(<<"M">>, Index("M", <<Num(2)>>))))
       => /\ last'.error.name = "none"
          /\ last'.result.list = <<ValueOf(ASecond.list[1])>>
          /\ last'.result.list = <<getItems(nameTable["A"].expr, "A", <<Num(2)>>, Current).v>>]_vars

(***************************************************************************)
(* C24: selective evaluation of the arguments of a built-in.               *)
(***************************************************************************)
\* The flags of the entry the call tree names, one per argument.
FlagsOf(tree) == baseFunctionTable[tree.list[1].expr.id].ev
Flagged(tree, value) == {k \in 1..Len(tree.list[1].args) : FlagsOf(tree)[k] = value}

\* C24: a call of an entry with selective-evaluation flags, with or without
\* a mapper property, hands each argument whose flag is false to the
\* implementation as the unreduced node and reduces each argument whose flag
\* is true: with x bound to a number, the implementation counts one node per
\* false flag and x++ is carried out once per true flag.
FlaggedArgumentsHandedUnreduced ==
    [][\A tree \in FlaggedCalls :
          (last'.op = "Evaluate" /\ last'.tree = tree /\ Bound("x")) =>
             /\ last'.error.name = "none"
             /\ last'.result.list = <<Num(Cardinality(Flagged(tree, FALSE)))>>
             /\ nameTable'["x"] =
                   Variable(Num(nameTable["x"].expr.re + Cardinality(Flagged(tree, TRUE))))]_vars

(***************************************************************************)
(* C25: compound indexed assignment.                                       *)
(***************************************************************************)
\* The target of the compound indexed assignment tree and the linear
\* position its literal subscripts select in a tensor with `rows` rows.
CompoundTarget(tree) == tree.list[1].left.expr.id
CompoundPosition(tree, rows) ==
    IF Len(tree.list[1].left.args) = 1 THEN tree.list[1].left.args[1].re
    ELSE (tree.list[1].left.args[2].re - 1) * rows + tree.list[1].left.args[1].re

\* The tensor T is the tensor M with 1 added to the element at position p.
AddedAt(T, M, p) ==
    /\ isTensor(T) /\ T.dim = M.dim
    /\ \A k \in 1..linearLength(M) :
          LinearItem(T, k) = IF k = p THEN Num(LinearItem(M, k).re + 1) ELSE LinearItem(M, k)

\* C25: `id(idx) += v` with id unbound or bound to a user function fails
\* with an EvalError and leaves the name table unchanged; with id bound to a
\* tensor the selected element becomes element + v, the other elements of
\* id and every other name staying as they were.
CompoundIndexedAssignmentUpdatesElement ==
    [][\A tree \in CompoundIndexed :
          (last'.op = "Evaluate" /\ last'.tree = tree) =>
             /\ (\/ CompoundTarget(tree) \notin DOMAIN nameTable
                 \/ IsFunctionEntry(nameTable, CompoundTarget(tree)))
                => /\ last'.error.name = "EvalError"
                   /\ nameTable' = nameTable
             /\ BoundToTensor(CompoundTarget(tree))
                => /\ last'.error.name = "none"
                   /\ DOMAIN nameTable' = DOMAIN nameTable
                   /\ \A id \in DOMAIN nameTable \ {CompoundTarget(tree)} :
                         nameTable'[id] = nameTable[id]
                   /\ nameTable'[CompoundTarget(tree)].args = <<>>
                   /\ AddedAt(nameTable'[CompoundTarget(tree)].expr,
                              nameTable[CompoundTarget(tree)].expr,
                              CompoundPosition(tree, nameTable[CompoundTarget(tree)].expr.dim[1]))]_vars

(***************************************************************************)
(* C26: a compound operator with several targets.                          *)
(***************************************************************************)
\* C26: `[x, y] += y++` is rejected with the EvalError of the computed
\* multiple assignment, the right side is not reduced and no target is
\* bound (the name table is unchanged); `[x] += 1` and `x += 1` with x bound
\* to a number are carried out: x becomes x + 1.
CompoundMultipleAssignmentRejected ==
    [][/\ (last'.op = "Evaluate" /\ last'.tree = XYPlusYIncremented) =>
             /\ last'.error = EvalError("computed multiple assignment not allowed.")
             /\ nameTable' = nameTable
             /\ exitStatus' = response.EVAL_ERROR
       /\ (last'.op = "Evaluate" /\ last'.tree \in {XRowPlusOne, CompoundX} /\ Bound("x")) =>
             /\ last'.error.name = "none"
             /\ nameTable' = Put(nameTable, "x", Variable(Num(nameTable["x"].expr.re + 1)))]_vars

\* [x, y] += y++ was rejected in a state where y is bound to a number, so
\* that reducing the right side would have changed y.
CompoundMultipleAssignmentRejectedWitness ==
    /\ Evaluated(XYPlusYIncremented)
    /\ last.error.name = "EvalError"
    /\ Bound("y")
    /\ "x" \notin DOMAIN nameTable

(***************************************************************************)
(* C27: the value of a completed assignment.                               *)
(***************************************************************************)
\* The targets of the assignment statement of tree and the values its right
\* side gives them (a number, or the return list of size(A)).
AssignmentTargets(tree) ==
    IF isTensor(tree.list[1].left) THEN tree.list[1].left.array[1] ELSE <<tree.list[1].left>>
AssignedValues(tree) ==
    IF isNumber(tree.list[1].right) THEN <<tree.list[1].right>>
    ELSE [d \in 1..2 |-> newNumber(nameTable["A"].expr.dim[d])]

\* The `name = value` nodes of the named targets, in target order.
TargetNodes(tree) ==
    SelectSeq([k \in 1..Len(AssignmentTargets(tree)) |->
                  IF AssignmentTargets(tree)[k].type = "<~>" THEN null
                  ELSE nodeOp("=", AssignmentTargets(tree)[k], AssignedValues(tree)[k])],
              LAMBDA node : node.type # "null")

\* C27: with A bound to a tensor, an assignment that is a statement of the
\* list Evaluate is called with returns the `name = value` node of its
\* single target, or with several targets (named or `~`) the list of the
\* nodes of its named targets in target order; as the operand of another
\* expression it returns the value of its first target.
AssignmentValueByPosition ==
    [][\A tree \in RootAssignments :
          BoundToTensor("A") =>
             /\ (last'.op = "Evaluate" /\ last'.tree = tree) =>
                   /\ last'.error.name = "none"
                   /\ last'.result.list =
                         <<IF Len(AssignmentTargets(tree)) = 1 THEN TargetNodes(tree)[1]
                           ELSE Reduced(TargetNodes(tree))>>
             /\ (last'.op = "Evaluate" /\ last'.tree = AsOperand(tree)) =>
                   /\ last'.error.name = "none"
                   /\ last'.result.list = <<AssignedValues(tree)[1]>>]_vars

(***************************************************************************)
(* C28: the variable ans.                                                  *)
(***************************************************************************)
\* The positions of the bare scalars among the reduced statements.
ScalarResults(list) == {k \in 1..Len(list) : isNumber(list[k])}

\* The name table with ans rebound to the last bare scalar of the reduced
\* statements, if there is one.
WithAns(table, list) ==
    IF ScalarResults(list) = {} THEN table
    ELSE Put(table, "ans",
             Variable(list[CHOOSE k \in ScalarResults(list) : \A m \in ScalarResults(list) : m <= k]))

\* C28: after Evaluate has returned for a list of bare expressions (A,
\* `2; A`, `A; 2`, A(2)), ans holds the last bare scalar among the reduced
\* statements; a list without a scalar result, such as the tensor A alone,
\* leaves ans as it was.
AnsHoldsLastScalar ==
    [][\A tree \in BareResults :
          (last'.op = "Evaluate" /\ last'.tree = tree /\ last'.error.name = "none") =>
             nameTable' = WithAns(nameTable, last'.result.list)]_vars

(***************************************************************************)
(* C29: a bare name run as a word-list command.                            *)
(***************************************************************************)
\* The name is bound in none of the tables a statement of the root list can
\* see (no local frame is active there) and is a registered command word.
UnboundCommandWord(id) ==
    /\ id \notin DOMAIN nameTable
    /\ id \notin DOMAIN baseFunctionTable
    /\ id \in commandsTable

\* C29: the bare name statement `cmd` (respectively x, y) is run as a
\* command exactly when the name is bound in no table and is a registered
\* command word: the handler is then called once, the exit status is
\* EXTERNAL and the command node is returned; otherwise the handler is not
\* called and the exit status is not EXTERNAL.
BareNameRunsCommand ==
    [][\A id \in {"cmd", "x", "y"} :
          (last'.op = "Evaluate" /\ last'.tree = Program(<<Name(id)>>)) =>
             IF UnboundCommandWord(id)
             THEN /\ last'.error.name = "none"
                  /\ last'.cmdCalls = 1
                  /\ exitStatus' = response.EXTERNAL
                  /\ last'.result.list = <<nodeCmdWList(Name(id), <<>>)>>
             ELSE /\ last'.cmdCalls = 0
                  /\ exitStatus' # response.EXTERNAL]_vars

(***************************************************************************)
(* C30: the order in which a callee is resolved.                           *)
(***************************************************************************)
\* The value the built-in size yields for the scalar bound to x.
SizeOfX == FirstOfSize(nameTable["x"].expr)

\* C30: a callee is looked up in the base function table (under its alias
\* name) first, then in the active local frame, then in the name table:
\* size(x) and sz(x) yield what the built-in size yields, also when size is
\* bound to a user function and sz to a variable; inside p(y) = y(1) the
\* callee y is the argument of the call, also when a variable y exists; and
\* u(x++) with u bound nowhere fails as undefined and changes no table.
CalleeResolutionOrder ==
    [][/\ (last'.op = "Evaluate" /\ last'.tree \in {CallSize, CallSz} /\ Bound("x")) =>
             /\ last'.error.name = "none"
             /\ last'.result.list = <<SizeOfX>>
       /\ (/\ last'.op = "Evaluate" /\ last'.tree = CallP
           /\ Holds("p", FunctionEntry(<<"y">>, Index("y", <<Num(1)>>)))) =>
             /\ last'.error.name = "none"
             /\ last'.result.list = <<Num(2)>>
       /\ (last'.op = "Evaluate" /\ last'.tree = CallU) =>
             /\ last'.error = EvalError("undefined.")
             /\ nameTable' = nameTable
             /\ localTable' = localTable
             /\ baseFunctionTable' = baseFunctionTable]_vars

\* size(x) was answered by the built-in while size was bound to a user
\* function in the name table.
CalleeResolutionOrderWitness ==
    /\ Evaluated(CallSize)
    /\ last.error.name = "none"
    /\ IsFunctionEntry(nameTable, "size")
    /\ "size" \in DOMAIN baseFunctionTable
    /\ last.result.list = <<Num(1)>>

====
